---- MODULE Spec2Model ----
(***************************************************************************)
(* Model of the health-monitoring pipeline: the service registry           *)
(* (Repository), the per-service state machine (models.ExternalService),   *)
(* the queue worker (Engine.StartWorker) and the WebSocket hub (Hub.Run)   *)
(* with its subscribers (Engine.HandleWebSocket).                          *)
(*                                                                         *)
(* The specifications share the variables:                                 *)
(*   Spec     registration, job publication, one worker, the hub reactor   *)
(*            taking events off its broadcast channel;                     *)
(*   SpecSM   the state machine alone: one service, one UpdateServiceState *)
(*            call after the other;                                        *)
(*   SpecRegistry the registration endpoint, called with any body;         *)
(*   SpecWorker as Spec with one registration;                             *)
(*   SpecCancel as SpecWorker with a cancellation of the context;          *)
(*   SpecMW   as SpecWorker with two workers on the queue;                 *)
(*   SpecCrash as SpecWorker with a process that can die                   *)
(*            with a message in hand, which the broker then redelivers;    *)
(*   SpecHub  the hub reactor with subscribers that register, drain,       *)
(*            stall and unregister, fed by BroadcastStateChange            *)
(*            (SpecHubFair: with the scheduling of Hub.Run);               *)
(*   SpecSched the Scheduler's ticks over a table of services.             *)
(***************************************************************************)
EXTENDS Integers, Sequences, FiniteSets, TLC

(* ------------------------------ bounds --------------------------------- *)

\* messages ever published to the queue
MaxJobs == 2
\* messages waiting in the queue at one time
MaxQueue == 1
\* largest failure_threshold a caller registers
MaxThreshold == 2
\* calls of the registration endpoint that pass validation
MaxRegisters == 2
\* rows of external_services (ids 1..MaxServices)
MaxServices == 1
\* capacity of Client.Send; the code makes it 256 (part_001:208)
SendCap == 2
\* capacity of Hub.broadcast; the code makes it 256 (broadcast.go:60)
BroadcastCap == 1
\* events BroadcastStateChange is called with under SpecHub
MaxHubEvents == 5
\* times the process dies with a message in hand in one run of SpecCrash
MaxCrashes == 1
\* messages ever published to the queue in one run of SpecSubs
MaxFeed == 3
\* the latest reading of the wall clock, in seconds, in a run of SpecTimed
MaxClock == 20
\* ticks of the Scheduler in one run of SpecSched
MaxTicks == 2
\* the latest reading of the wall clock, in seconds, in a run of SpecSched
MaxTime == 4

(* ----------------------------- constants ------------------------------- *)

\* LastCheckedAt == nil
Null == 0 - 1

Names == {"A"}
\* the worker main starts, and a second instance consuming from the same queue
Deployed == {"w1"}
Workers == {"w1", "w2"}
Clients == {"c1", "c2"}
IDs == 1..MaxServices

VARIABLES
    services,     \* table external_services: id -> row
    nextID,       \* the table's autoincrement sequence
    queue,        \* the RabbitMQ queue, oldest message first
    published,    \* number of messages ever published
    wk,           \* per worker: position in StartWorker's loop and its locals
    logs,         \* table service_check_logs, in insertion order
    settled,      \* history: how many messages were acked, nacked, and requeued
                  \* by the broker when their consumer died; of the nacked,
                  \* how many as invalid_job and how many as service_not_found
    events,       \* history: the events handed to the Hub, in order
    registered,   \* number of registration requests that reached the table
    now,          \* the wall clock
    broadcast,    \* channel Hub.broadcast
    clients,      \* Hub.clients
    send,         \* per client: the pending messages of channel Client.Send
    sendClosed,   \* per client: Client.Send was closed
    conn,         \* per client: "none", "open", "unreg" (reader blocked on unregister), "gone"
    writer,       \* per client: "none", "run", "exit"
    delivered,    \* history, per client: messages written to the connection
    heard,        \* history, per client: broadcasts Hub.Run took while it was in Hub.clients
    taken,        \* history, per client: messages its writer received from Client.Send
    hubPanicked,  \* Hub.Run died of a send on, or a close of, a closed channel
    calls,        \* history: the UpdateServiceState calls made so far
    tick,         \* history: the Scheduler's latest tick
    cancelled,    \* the cancellation signal was raised: ctx.Done() is closed
    stopped,      \* Engine.Scheduler has returned nil
    closed,       \* the channels of the Hub that were closed, of "register",
                  \* "unregister" and "broadcast"
    MapExternalServices,
                  \* the package variable cache.MapExternalServices: id -> the
                  \* service last stored under it
    ranging,      \* the Scheduler's range over the map GetAllServices returned
                  \* and, as history, what the query found and what was visited
    mapFault,     \* the runtime ended the process: concurrent map iteration
                  \* and map write
    reply         \* history under SpecRegistry: the latest request body the
                  \* registration endpoint answered and the HTTP status of the
                  \* answer, 0 before the first

vars == <<services, nextID, registered, queue, published, wk, logs, settled, events, now,
          broadcast, clients, send, sendClosed, conn, writer, delivered, heard, taken,
          hubPanicked, calls, tick, closed, MapExternalServices, ranging, mapFault,
          cancelled, stopped, reply>>

registryVars == <<services, nextID, registered>>
workerVars == <<queue, published, wk, logs, settled, events>>
subscriberVars == <<clients, send, sendClosed, conn, writer, delivered, heard, taken,
                    hubPanicked>>
smVars == <<calls>>
schedVars == <<tick>>
closeVars == <<closed>>
\* The map is followed under SpecCache. Elsewhere it is left out: where the
\* Scheduler does not run, the map is only written, and where the endpoints do
\* not run, the map GetAllServices returns holds the rows it has just read
cacheVars == <<MapExternalServices, ranging, mapFault>>
ctxVars == <<cancelled, stopped>>
replyVars == <<reply>>

(* ------------------- models.ExternalService: state machine ------------- *)

\* mutant: the threshold must be exceeded, not reached
ShouldMarkDownStrict(s) == s.cf > s.T

\* s.ConsecutiveFailures >= s.FailureThreshold
ShouldMarkDown(s) == s.cf >= s.T

\* mutant: the counter is reset and the status left as it was
RecordSuccessKeepsStatus(s, t) ==
    [s EXCEPT !.cf = 0, !.lastCheckedAt = t]

\* mutant: a success marks the service up and leaves the counter as it is
RecordSuccessKeepsCounter(s, t) ==
    [s EXCEPT !.status = "UP", !.lastCheckedAt = t]

RecordSuccess(s, t) ==
    [s EXCEPT !.status = "UP", !.cf = 0, !.lastCheckedAt = t]

\* mutant: any failure marks the service down
RecordFailureNoThreshold(s, t) ==
    [s EXCEPT !.cf = s.cf + 1, !.lastCheckedAt = t, !.status = "DOWN"]

RecordFailure(s, t) ==
    LET s1 == [s EXCEPT !.cf = s.cf + 1, !.lastCheckedAt = t]
    IN  IF ShouldMarkDown(s1) THEN [s1 EXCEPT !.status = "DOWN"] ELSE s1

(* --------------------------- Repository -------------------------------- *)

\* the gorm column default of Status, applied to a zero value on insert
StatusDefault == "up"

\* mutant: only zero is refused as a timeout, a threshold or an interval
ValidateNonZero(s) ==
    /\ s.name # ""
    /\ s.url # ""
    /\ s.method # ""
    /\ s.timeout # 0
    /\ s.method \in {"GET", "POST", "PUT", "DELETE", "PATCH"}
    /\ s.T # 0
    /\ s.interval # 0

\* the checks of RegisterService before the write
Validate(s) ==
    /\ s.name # ""
    /\ s.url # ""
    /\ s.method # ""
    /\ s.timeout > 0
    /\ s.method \in {"GET", "POST", "PUT", "DELETE", "PATCH"}
    /\ s.T > 0
    /\ s.interval > 0

\* the row a request body becomes (the columns the model follows)
RowOf(s) ==
    [name |-> s.name, T |-> s.T, interval |-> s.interval,
     status |-> s.status, cf |-> s.cf, lastCheckedAt |-> s.lastCheckedAt]

\* the zero-valued Status takes the column default on insert
WithDefaults(r) ==
    IF r.status = "" THEN [r EXCEPT !.status = StatusDefault] ELSE r

\* the unique index on name
NameTaken(name, butID) ==
    \E i \in DOMAIN services : i # butID /\ services[i].name = name

\* the request bodies the registration endpoint is called with
BaseRequest ==
    [id |-> 0, name |-> "A", url |-> "http://x/health", method |-> "GET",
     timeout |-> 5, interval |-> 1, T |-> 1,
     status |-> "", cf |-> 0, lastCheckedAt |-> Null]

ValidRequests ==
    { [BaseRequest EXCEPT !.id = i, !.name = n, !.T = t, !.status = st, !.cf = c] :
        i \in {0} \cup IDs, n \in Names, t \in 1..MaxThreshold,
        st \in {"", "UP", "DOWN"}, c \in {0, 1} }

InvalidRequests ==
    { [BaseRequest EXCEPT !.name = ""], [BaseRequest EXCEPT !.url = ""],
      [BaseRequest EXCEPT !.method = ""], [BaseRequest EXCEPT !.method = "FOO"],
      [BaseRequest EXCEPT !.timeout = 0], [BaseRequest EXCEPT !.timeout = 0 - 1],
      [BaseRequest EXCEPT !.T = 0], [BaseRequest EXCEPT !.T = 0 - 1],
      [BaseRequest EXCEPT !.interval = 0], [BaseRequest EXCEPT !.interval = 0 - 1],
      [BaseRequest EXCEPT !.id = 1, !.status = "DOWN", !.method = "FOO"] }

\* db.Save of a record with no id: INSERT with the sequence's next value; an
\* id already taken by a row written with an explicit id fails the INSERT and
\* uses the value up
SaveNew(s) ==
    /\ ~NameTaken(s.name, 0)
    /\ nextID \in IDs
    /\ services' = IF nextID \in DOMAIN services
                   THEN services
                   ELSE (nextID :> WithDefaults(RowOf(s))) @@ services
    /\ nextID' = nextID + 1

\* db.Save of a record with an id: UPDATE of every column, INSERT if no such row
SaveWithID(s) ==
    /\ ~NameTaken(s.name, s.id)
    /\ services' =
         IF s.id \in DOMAIN services
         THEN [services EXCEPT ![s.id] = RowOf(s)]
         ELSE (s.id :> WithDefaults(RowOf(s))) @@ services
    /\ nextID' = nextID

\* Engine.RegisterService / DbRepository.RegisterService: a rejected request
\* and a failed write leave the table as it is
RegisterService(s) ==
    /\ \/ /\ Validate(s)
          /\ registered < MaxRegisters
          /\ registered' = registered + 1
          /\ IF s.id = 0 THEN SaveNew(s) ELSE SaveWithID(s)
       \/ /\ ~Validate(s)
          /\ UNCHANGED registryVars
    /\ UNCHANGED <<workerVars, now, broadcast, subscriberVars, smVars, schedVars, closeVars, cacheVars, ctxVars>>

\* before the first call of the registration endpoint
NoReply == [body |-> BaseRequest, status |-> 0]

\* the answer to a request that got one: 201, or 500 with the error of the
\* validation
ReplyTo(s) == [body |-> s, status |-> IF Validate(s) THEN 201 ELSE 500]

\* a call of the registration endpoint where the answer is not recorded: a
\* rejected request then changes nothing at all, a stuttering step that every
\* specification allows, so the bodies that pass the validation are the ones
\* that make steps
Register ==
    \E s \in ValidRequests : RegisterService(s) /\ UNCHANGED replyVars

\* a call of the registration endpoint and the answer the client reads
RegisterAndReply ==
    \E s \in ValidRequests \cup InvalidRequests : RegisterService(s) /\ reply' = ReplyTo(s)

\* GetServiceByName, Where(&models.ExternalService{Name: name}).First: the ids
\* of the rows with that name (at most one). gorm builds the condition from the
\* non-zero fields of the struct, so an empty name puts no condition on the
\* query and First finds the row with the lowest id
GetServiceByName(name) ==
    IF name = ""
    THEN { i \in DOMAIN services : \A j \in DOMAIN services : i <= j }
    ELSE { i \in DOMAIN services : services[i].name = name }

(* ------------------------------- queue --------------------------------- *)

\* the messages on the queue: bytes that decode as a HealthCheckJob (for a
\* registered service, for one nobody registered, or with no service_name;
\* reqOk: http.NewRequest accepts its method and url), or bytes that do not
\* decode as one; redelivered is the broker's flag on a message it delivers again
Jobs ==
    { [body |-> "job", name |-> n, reqOk |-> r, redelivered |-> FALSE] :
        n \in Names \cup {""}, r \in BOOLEAN }
    \cup { [body |-> "job", name |-> "Z", reqOk |-> TRUE, redelivered |-> FALSE] }
    \cup { [body |-> "garbage", name |-> "", reqOk |-> FALSE, redelivered |-> FALSE] }

\* Scheduler.Schedule: publish one message to the queue, the run having at
\* most max of them
ScheduleWithin(job, max) ==
    /\ published < max
    /\ Len(queue) < MaxQueue
    /\ queue' = Append(queue, job)
    /\ published' = published + 1
    /\ UNCHANGED <<registryVars, wk, logs, settled, events, now, broadcast, subscriberVars,
                   smVars, schedVars, closeVars, cacheVars, ctxVars, replyVars>>

Schedule(job) == ScheduleWithin(job, MaxJobs)

Publish == \E job \in Jobs : Schedule(job)

\* the jobs the Scheduler makes of the registered services
Feed ==
    \E n \in Names :
        ScheduleWithin([body |-> "job", name |-> n, reqOk |-> TRUE, redelivered |-> FALSE],
                       MaxFeed)

(* -------------------------------- hub ---------------------------------- *)

\* BroadcastStateChange: the event of a transition of service row r with id i
EventOf(i, r, change, t) ==
    [type |-> "service_state_change", service_id |-> i, name |-> r.name,
     from |-> change.from, to |-> change.to, timestamp |-> t]

\* Hub.Broadcast: h.broadcast <- msg, which waits while the channel is full
HubBroadcast(msg) ==
    /\ "broadcast" \notin closed
    /\ Len(broadcast) < BroadcastCap
    /\ broadcast' = Append(broadcast, msg)

(* ------------------------------- worker -------------------------------- *)

NoService == [id |-> 0, name |-> "", T |-> 0, interval |-> 0,
              status |-> "", cf |-> 0, lastCheckedAt |-> Null]
NoJob == [body |-> "", name |-> "", reqOk |-> FALSE, redelivered |-> FALSE]

\* a worker between two messages. History of the message in hand: resp (what
\* client.Do returned), logTried
\* (SaveServiceCheckLog was called), logged (entries it appended), updated
\* (UpdateServiceState returned), before and after (the stored status around
\* the Save), handed (the event was passed to the Hub)
Idle ==
    [pc |-> "consume", job |-> NoJob, service |-> NoService,
     resp |-> [err |-> FALSE, code |-> 0],
     status |-> "", statusCode |-> 0, errorMsg |-> "", success |-> FALSE,
     stateChange |-> <<>>, logTried |-> FALSE, logged |-> 0, updated |-> FALSE,
     before |-> "", after |-> "", handed |-> FALSE]

\* msg.Ack(false) / msg.Nack(false, false), and on to the next message
Settle(w, how) ==
    /\ settled' = [settled EXCEPT ![how] = @ + 1]
    /\ wk' = [wk EXCEPT ![w] = Idle]

\* mutant: bytes that are no job are acknowledged
WorkerConsumeAcksInvalid(w) ==
    /\ wk[w].pc = "consume"
    /\ queue # <<>>
    /\ queue' = Tail(queue)
    /\ IF Head(queue).body = "job"
       THEN /\ wk' = [wk EXCEPT ![w] = [Idle EXCEPT !.pc = "load", !.job = Head(queue)]]
            /\ settled' = settled
       ELSE /\ settled' = [settled EXCEPT !.ack = @ + 1, !.invalid = @ + 1]
            /\ wk' = wk
    /\ UNCHANGED <<registryVars, published, logs, events, now, broadcast, subscriberVars,
                   smVars, schedVars, closeVars, cacheVars, ctxVars, replyVars>>

\* for msg := range msgs; json.Unmarshal: bytes that are no job are nacked
\* (invalid_job) and the loop continues
WorkerConsume(w) ==
    /\ wk[w].pc = "consume"
    /\ queue # <<>>
    /\ queue' = Tail(queue)
    /\ IF Head(queue).body = "job"
       THEN /\ wk' = [wk EXCEPT ![w] = [Idle EXCEPT !.pc = "load", !.job = Head(queue)]]
            /\ settled' = settled
       ELSE /\ settled' = [settled EXCEPT !.nack = @ + 1, !.invalid = @ + 1]
            /\ wk' = wk
    /\ UNCHANGED <<registryVars, published, logs, events, now, broadcast, subscriberVars,
                   smVars, schedVars, closeVars, cacheVars, ctxVars, replyVars>>

\* e.Repo.GetServiceByName: no such service is nacked (service_not_found)
WorkerLoad(w) ==
    /\ wk[w].pc = "load"
    /\ IF GetServiceByName(wk[w].job.name) = {}
       THEN /\ settled' = [settled EXCEPT !.nack = @ + 1, !.notFound = @ + 1]
            /\ wk' = [wk EXCEPT ![w] = Idle]
       ELSE /\ \E i \in GetServiceByName(wk[w].job.name) :
                 wk' = [wk EXCEPT ![w].pc = "probe",
                                  ![w].service = [id |-> i] @@ services[i]]
            /\ settled' = settled
    /\ UNCHANGED <<registryVars, queue, published, logs, events, now, broadcast,
                   subscriberVars, smVars, schedVars, closeVars, cacheVars, ctxVars, replyVars>>

\* what client.Do returns: an error (err != nil, whose text is never empty;
\* the code does not look at resp then), or a response with its status code
TransportError == [err |-> TRUE, code |-> 0]
Response(code) == [err |-> FALSE, code |-> code]

\* the probe's outcomes: a transport error, a response below 400, one from 400 up
Responses == {TransportError, Response(200), Response(500)}

\* the outcomes of the probes of SpecProbe: the status codes around the limit too
ProbeResponses ==
    {TransportError} \cup { Response(c) : c \in {100, 200, 302, 399, 400, 404, 500} }

\* mutant: a response with status code 400 counts as a success
OutcomeUpTo400(resp) ==
    [status     |-> IF ~resp.err /\ resp.code <= 400 THEN "UP" ELSE "DOWN",
     statusCode |-> IF resp.err THEN 0 ELSE resp.code,
     errorMsg   |-> IF resp.err THEN "err" ELSE "",
     success    |-> ~resp.err /\ resp.code <= 400]

\* status, statusCode, errorMsg and success as lines 92-106 set them
Outcome(resp) ==
    [status     |-> IF ~resp.err /\ resp.code < 400 THEN "UP" ELSE "DOWN",
     statusCode |-> IF resp.err THEN 0 ELSE resp.code,
     errorMsg   |-> IF resp.err THEN "err" ELSE "",
     success    |-> ~resp.err /\ resp.code < 400]

\* mutant: the probe's result goes to UpdateServiceState before it is logged
WorkerProbeSkipsLog(w) ==
    /\ wk[w].pc = "probe"
    /\ IF ~wk[w].job.reqOk
       THEN Settle(w, "nack")
       ELSE /\ \E resp \in Responses :
                 wk' = [wk EXCEPT ![w].pc = "update",
                                  ![w].resp = resp,
                                  ![w].status = Outcome(resp).status,
                                  ![w].statusCode = Outcome(resp).statusCode,
                                  ![w].errorMsg = Outcome(resp).errorMsg,
                                  ![w].success = Outcome(resp).success]
            /\ settled' = settled
    /\ UNCHANGED <<registryVars, queue, published, logs, events, now, broadcast,
                   subscriberVars, smVars, schedVars, closeVars, cacheVars, ctxVars, replyVars>>

\* mutant: a request that cannot be built is skipped without settling the message
WorkerProbeDropsInvalid(w) ==
    /\ wk[w].pc = "probe"
    /\ IF ~wk[w].job.reqOk
       THEN /\ wk' = [wk EXCEPT ![w] = Idle]
            /\ settled' = settled
       ELSE /\ \E resp \in Responses :
                 wk' = [wk EXCEPT ![w].pc = "log",
                                  ![w].resp = resp,
                                  ![w].status = Outcome(resp).status,
                                  ![w].statusCode = Outcome(resp).statusCode,
                                  ![w].errorMsg = Outcome(resp).errorMsg,
                                  ![w].success = Outcome(resp).success]
            /\ settled' = settled
    /\ UNCHANGED <<registryVars, queue, published, logs, events, now, broadcast,
                   subscriberVars, smVars, schedVars, closeVars, cacheVars, ctxVars, replyVars>>

\* http.NewRequest (a request that cannot be built is nacked) and client.Do, whose
\* outcome is one of R
WorkerProbeOver(w, R) ==
    /\ wk[w].pc = "probe"
    /\ IF ~wk[w].job.reqOk
       THEN Settle(w, "nack")
       ELSE /\ \E resp \in R :
                 wk' = [wk EXCEPT ![w].pc = "log",
                                  ![w].resp = resp,
                                  ![w].status = Outcome(resp).status,
                                  ![w].statusCode = Outcome(resp).statusCode,
                                  ![w].errorMsg = Outcome(resp).errorMsg,
                                  ![w].success = Outcome(resp).success]
            /\ settled' = settled
    /\ UNCHANGED <<registryVars, queue, published, logs, events, now, broadcast,
                   subscriberVars, smVars, schedVars, closeVars, cacheVars, ctxVars, replyVars>>

WorkerProbe(w) == WorkerProbeOver(w, Responses)

\* mutant: a failed insert of the log entry ends the processing with a nack
WorkerLogAbortsOnError(w) ==
    /\ wk[w].pc = "log"
    /\ \E dbOk \in BOOLEAN :
         IF dbOk
         THEN /\ logs' = Append(logs, [service_id |-> wk[w].service.id,
                                       status |-> wk[w].status,
                                       statusCode |-> wk[w].statusCode,
                                       errorMsg |-> wk[w].errorMsg,
                                       checkedAt |-> now])
              /\ wk' = [wk EXCEPT ![w].pc = "update",
                                  ![w].logTried = TRUE,
                                  ![w].logged = @ + 1]
              /\ settled' = settled
         ELSE /\ logs' = logs
              /\ Settle(w, "nack")
    /\ UNCHANGED <<registryVars, queue, published, events, now, broadcast,
                   subscriberVars, smVars, schedVars, closeVars, cacheVars, ctxVars, replyVars>>

\* e.Repo.SaveServiceCheckLog: the insert may fail, which is only logged
WorkerLog(w) ==
    /\ wk[w].pc = "log"
    /\ \E dbOk \in BOOLEAN :
         /\ logs' = IF dbOk
                    THEN Append(logs, [service_id |-> wk[w].service.id,
                                       status |-> wk[w].status,
                                       statusCode |-> wk[w].statusCode,
                                       errorMsg |-> wk[w].errorMsg,
                                       checkedAt |-> now])
                    ELSE logs
         /\ wk' = [wk EXCEPT ![w].pc = "update",
                             ![w].logTried = TRUE,
                             ![w].logged = IF dbOk THEN @ + 1 ELSE @]
    /\ UNCHANGED <<registryVars, queue, published, settled, events, now, broadcast,
                   subscriberVars, smVars, schedVars, closeVars, cacheVars, ctxVars, replyVars>>

\* the record UpdateServiceState leaves in the caller's hands
Advance(s, success, t) ==
    IF success THEN RecordSuccess(s, t) ELSE RecordFailure(s, t)

\* mutant: a change is reported whenever the service ends up down
StateChangeWhenDown(previousStatus, s) ==
    IF s.status = "DOWN"
    THEN <<[from |-> previousStatus, to |-> s.status]>>
    ELSE <<>>

\* mutant: a change is reported whenever the service ends up up
StateChangeWhenUp(previousStatus, s) ==
    IF s.status = "UP"
    THEN <<[from |-> previousStatus, to |-> s.status]>>
    ELSE <<>>

\* the *StateChange UpdateServiceState returns after a Save that worked
StateChangeOf(previousStatus, s) ==
    IF previousStatus # s.status
    THEN <<[from |-> previousStatus, to |-> s.status]>>
    ELSE <<>>

\* the row a Save of the worker's record writes
RowOfService(s) ==
    [name |-> s.name, T |-> s.T, interval |-> s.interval,
     status |-> s.status, cf |-> s.cf, lastCheckedAt |-> s.lastCheckedAt]

\* mutant: the transition is returned also when the Save failed
UpdateServiceStateReportsUnsaved(s, success, dbOk, t) ==
    LET s1 == Advance(s, success, t)
    IN [service |-> s1,
        saved   |-> dbOk,
        change  |-> StateChangeOf(s.status, s1)]

\* UpdateServiceState(ctx, service, success) at time t, dbOk telling whether
\* its Save works: the caller's record as the call leaves it, whether the row
\* was written, and the *StateChange returned (nil after a failed Save)
UpdateServiceState(s, success, dbOk, t) ==
    LET s1 == Advance(s, success, t)
    IN [service |-> s1,
        saved   |-> dbOk,
        change  |-> IF dbOk THEN StateChangeOf(s.status, s1) ELSE <<>>]

\* the table after the Save of UpdateServiceState
TableAfter(r) ==
    IF r.saved
    THEN [services EXCEPT ![r.service.id] = RowOfService(r.service)]
    ELSE services

\* mutant: the message is acknowledged right after the state update, before
\* the transition is broadcast
WorkerUpdateAcksFirst(w) ==
    /\ wk[w].pc = "update"
    /\ \E dbOk \in BOOLEAN :
         LET r == UpdateServiceState(wk[w].service, wk[w].success, dbOk, now)
         IN /\ services' = TableAfter(r)
            /\ wk' = [wk EXCEPT ![w].pc = "ack",
                                ![w].service = r.service,
                                ![w].stateChange = r.change,
                                ![w].updated = TRUE,
                                ![w].before = services[r.service.id].status,
                                ![w].after = services'[r.service.id].status]
            /\ calls' = Append(calls, [success |-> wk[w].success, saved |-> r.saved,
                                       before |-> services[r.service.id],
                                       after |-> services'[r.service.id],
                                       change |-> r.change])
    /\ UNCHANGED <<nextID, registered, queue, published, logs, settled, events, now, broadcast,
                   subscriberVars, schedVars, closeVars, cacheVars, ctxVars, replyVars>>

\* mutant: the new state is stored only while a subscriber is connected to
\* hear of it
WorkerUpdateSkipsUnheard(w) ==
    /\ wk[w].pc = "update"
    /\ \E dbOk \in BOOLEAN :
         LET r == UpdateServiceState(wk[w].service, wk[w].success, dbOk, now)
         IN /\ services' = IF clients # {} THEN TableAfter(r) ELSE services
            /\ wk' = [wk EXCEPT ![w].pc = IF r.change # <<>> THEN "emit" ELSE "ack",
                                ![w].service = r.service,
                                ![w].stateChange = r.change,
                                ![w].updated = TRUE,
                                ![w].before = services[r.service.id].status,
                                ![w].after = services'[r.service.id].status]
            /\ calls' = Append(calls, [success |-> wk[w].success, saved |-> r.saved,
                                       before |-> services[r.service.id],
                                       after |-> services'[r.service.id],
                                       change |-> r.change])
    /\ UNCHANGED <<nextID, registered, queue, published, logs, settled, events, now, broadcast,
                   subscriberVars, schedVars, closeVars, cacheVars, ctxVars, replyVars>>

\* e.Repo.UpdateServiceState on the worker's copy of the service, then the
\* branch on its result: an error is only logged
WorkerUpdate(w) ==
    /\ wk[w].pc = "update"
    /\ \E dbOk \in BOOLEAN :
         LET r == UpdateServiceState(wk[w].service, wk[w].success, dbOk, now)
         IN /\ services' = TableAfter(r)
            /\ wk' = [wk EXCEPT ![w].pc = IF r.change # <<>> THEN "emit" ELSE "ack",
                                ![w].service = r.service,
                                ![w].stateChange = r.change,
                                ![w].updated = TRUE,
                                ![w].before = services[r.service.id].status,
                                ![w].after = services'[r.service.id].status]
            /\ calls' = Append(calls, [success |-> wk[w].success, saved |-> r.saved,
                                       before |-> services[r.service.id],
                                       after |-> services'[r.service.id],
                                       change |-> r.change])
    /\ UNCHANGED <<nextID, registered, queue, published, logs, settled, events, now, broadcast,
                   subscriberVars, schedVars, closeVars, cacheVars, ctxVars, replyVars>>

\* BroadcastStateChange(*service, stateChange) -> GlobalHub.Broadcast(payload)
WorkerEmit(w) ==
    /\ wk[w].pc = "emit"
    /\ LET ev == EventOf(wk[w].service.id, wk[w].service, wk[w].stateChange[1], now)
       IN HubBroadcast(ev)
    /\ wk' = [wk EXCEPT ![w].pc = "ack", ![w].handed = TRUE]
    /\ events' = Append(events, wk[w].stateChange[1])
    /\ UNCHANGED <<registryVars, queue, published, logs, settled, now, subscriberVars, smVars,
                   schedVars, closeVars, cacheVars, ctxVars, replyVars>>

\* msg.Ack(false)
WorkerAck(w) ==
    /\ wk[w].pc = "ack"
    /\ Settle(w, "ack")
    /\ UNCHANGED <<registryVars, queue, published, logs, events, now, broadcast,
                   subscriberVars, smVars, schedVars, closeVars, cacheVars, ctxVars, replyVars>>

\* the process dies while the worker has a message in hand: the message was
\* consumed without auto-ack and never acknowledged, so the broker puts it back
\* on the queue flagged as redelivered; the restarted process has a fresh
\* worker and a fresh Hub, whose broadcast channel is empty
WorkerCrash(w) ==
    /\ wk[w].pc # "consume"
    /\ settled.requeued < MaxCrashes
    /\ queue' = <<[wk[w].job EXCEPT !.redelivered = TRUE]>> \o queue
    /\ wk' = [wk EXCEPT ![w] = Idle]
    /\ settled' = [settled EXCEPT !.requeued = @ + 1]
    /\ broadcast' = <<>>
    /\ UNCHANGED <<registryVars, published, logs, events, now, subscriberVars, smVars, schedVars, closeVars, cacheVars, ctxVars, replyVars>>

\* one whole iteration of the loop of StartWorker in one step, for a job of
\* the Scheduler when the broker, the registry and the Hub all work: the
\* message is taken, the service loaded, the probe made and logged, the state
\* updated (time.Now() of the update being the time of the step), the
\* transition if any handed to the Hub, and the message acked
WorkerIteration(w) ==
    /\ wk[w].pc = "consume"
    /\ queue # <<>>
    /\ Head(queue).body = "job"
    /\ Head(queue).reqOk
    /\ \E i \in GetServiceByName(Head(queue).name), resp \in Responses :
         LET o == Outcome(resp)
             r == UpdateServiceState([id |-> i] @@ services[i], o.success, TRUE, now)
         IN /\ queue' = Tail(queue)
            /\ logs' = Append(logs, [service_id |-> i,
                                     status |-> o.status,
                                     statusCode |-> o.statusCode,
                                     errorMsg |-> o.errorMsg,
                                     checkedAt |-> now])
            /\ services' = TableAfter(r)
            /\ calls' = Append(calls, [success |-> o.success, saved |-> r.saved,
                                       before |-> services[i], after |-> services'[i],
                                       change |-> r.change])
            /\ IF r.change # <<>>
               THEN /\ HubBroadcast(EventOf(i, r.service, r.change[1], now))
                    /\ events' = Append(events, r.change[1])
               ELSE UNCHANGED <<broadcast, events>>
            /\ settled' = [settled EXCEPT !.ack = @ + 1]
    /\ UNCHANGED <<nextID, registered, published, wk, now, subscriberVars, schedVars,
                   closeVars, cacheVars, ctxVars, replyVars>>

StartWorker(w) ==
    \/ WorkerConsume(w)
    \/ WorkerLoad(w)
    \/ WorkerProbe(w)
    \/ WorkerLog(w)
    \/ WorkerUpdate(w)
    \/ WorkerEmit(w)
    \/ WorkerAck(w)

(* ----------------------------- hub reactor ----------------------------- *)

\* the value a receive on a closed channel of clients gives: a nil *Client
NilClient == "nil"

\* the value a receive on the closed, drained broadcast channel gives: a nil
\* payload, which is no event
NilMsg == [type |-> "", service_id |-> 0, name |-> "", from |-> "", to |-> "",
           timestamp |-> 0]

\* mutant: one message more than the capacity is accepted
FitsOneMore(c) == Len(send[c]) <= SendCap

\* the inner select of the broadcast case for one client: the send succeeds
\* when the buffer has room, the default branch drops the client
Fits(c) == Len(send[c]) < SendCap

\* mutant: the send has no default branch, so the loop waits for room in
\* every client's buffer
HubRunBroadcastBlocking ==
    /\ ~hubPanicked
    /\ broadcast # <<>>
    /\ \A c \in clients : Fits(c)
    /\ broadcast' = Tail(broadcast)
    /\ send' = [c \in Clients |->
                  IF c \in clients THEN Append(send[c], Head(broadcast)) ELSE send[c]]
    /\ heard' = [c \in Clients |->
                   IF c \in clients THEN Append(heard[c], Head(broadcast)) ELSE heard[c]]
    /\ UNCHANGED <<registryVars, workerVars, now, clients, sendClosed, conn, writer,
                   delivered, taken, hubPanicked, smVars, schedVars, closeVars, cacheVars, ctxVars, replyVars>>

\* mutant: the default branch closes the buffer of a full client and leaves
\* the client in the set
HubRunBroadcastKeepsEvicted ==
    /\ ~hubPanicked
    /\ broadcast # <<>>
    /\ broadcast' = Tail(broadcast)
    /\ LET msg == Head(broadcast)
           bad == NilClient \in clients \/ \E c \in clients : sendClosed[c]
       IN IF bad
          THEN /\ hubPanicked' = TRUE
               /\ UNCHANGED <<clients, send, sendClosed, heard>>
          ELSE /\ hubPanicked' = FALSE
               /\ heard' = [c \in Clients |->
                              IF c \in clients THEN Append(heard[c], msg) ELSE heard[c]]
               /\ clients' = clients
               /\ send' = [c \in Clients |->
                             IF c \in clients /\ Fits(c)
                             THEN Append(send[c], msg) ELSE send[c]]
               /\ sendClosed' = [c \in Clients |->
                             IF c \in clients /\ ~Fits(c) THEN TRUE ELSE sendClosed[c]]
    /\ UNCHANGED <<registryVars, workerVars, now, conn, writer, delivered, taken, smVars, schedVars, closeVars, cacheVars, ctxVars, replyVars>>

\* case msg := <-h.broadcast: the loop over h.clients
HubRunBroadcast ==
    /\ ~hubPanicked
    /\ broadcast # <<>>
    /\ broadcast' = Tail(broadcast)
    /\ LET msg == Head(broadcast)
           bad == NilClient \in clients \/ \E c \in clients : sendClosed[c]
       IN IF bad
          THEN /\ hubPanicked' = TRUE
               /\ UNCHANGED <<clients, send, sendClosed, heard>>
          ELSE /\ hubPanicked' = FALSE
               /\ heard' = [c \in Clients |->
                              IF c \in clients THEN Append(heard[c], msg) ELSE heard[c]]
               /\ clients' = { c \in clients : Fits(c) }
               /\ send' = [c \in Clients |->
                             IF c \in clients /\ Fits(c)
                             THEN Append(send[c], msg) ELSE send[c]]
               /\ sendClosed' = [c \in Clients |->
                             IF c \in clients /\ ~Fits(c) THEN TRUE ELSE sendClosed[c]]
    /\ UNCHANGED <<registryVars, workerVars, now, conn, writer, delivered, taken, smVars, schedVars, closeVars, cacheVars, ctxVars, replyVars>>

(* ----------------------------- subscribers ---------------------------- *)

\* HandleWebSocket after the upgrade: the new client, GlobalHub.register <-
\* client, which Hub.Run's register case takes (h.clients[client] = true), and
\* the start of the reader and writer goroutines
HubRunRegister(c) ==
    /\ ~hubPanicked
    /\ "register" \notin closed
    /\ conn[c] = "none"
    /\ clients' = clients \cup {c}
    /\ conn' = [conn EXCEPT ![c] = "open"]
    /\ writer' = [writer EXCEPT ![c] = "run"]
    /\ UNCHANGED <<registryVars, workerVars, now, broadcast, send, sendClosed,
                   delivered, heard, taken, hubPanicked, smVars, schedVars, closeVars, cacheVars, ctxVars, replyVars>>

\* the reader goroutine: conn.ReadMessage fails, the deferred function blocks
\* on GlobalHub.unregister <- client
ReaderReturn(c) ==
    /\ conn[c] = "open"
    /\ conn' = [conn EXCEPT ![c] = "unreg"]
    /\ UNCHANGED <<registryVars, workerVars, now, broadcast, clients, send, sendClosed,
                   writer, delivered, heard, taken, hubPanicked, smVars, schedVars, closeVars, cacheVars, ctxVars, replyVars>>

\* mutant: the unregister case does not look whether the client is in the set
HubRunUnregisterUnchecked(c) ==
    /\ ~hubPanicked
    /\ "unregister" \notin closed
    /\ conn[c] = "unreg"
    /\ conn' = [conn EXCEPT ![c] = "gone"]
    /\ clients' = clients \ {c}
    /\ sendClosed' = [sendClosed EXCEPT ![c] = TRUE]
    /\ hubPanicked' = sendClosed[c]
    /\ UNCHANGED <<registryVars, workerVars, now, broadcast, send, writer, delivered,
                   heard, taken, smVars, schedVars, closeVars, cacheVars, ctxVars, replyVars>>

\* case client := <-h.unregister, after which the reader closes the connection
HubRunUnregister(c) ==
    /\ ~hubPanicked
    /\ "unregister" \notin closed
    /\ conn[c] = "unreg"
    /\ conn' = [conn EXCEPT ![c] = "gone"]
    /\ IF c \in clients
       THEN /\ clients' = clients \ {c}
            /\ sendClosed' = [sendClosed EXCEPT ![c] = TRUE]
            /\ hubPanicked' = sendClosed[c]
       ELSE UNCHANGED <<clients, sendClosed, hubPanicked>>
    /\ UNCHANGED <<registryVars, workerVars, now, broadcast, send, writer, delivered,
                   heard, taken, smVars, schedVars, closeVars, cacheVars, ctxVars, replyVars>>

\* a channel of the Hub is closed. Nothing in the repository does it; a send
\* on the closed channel would panic in the sender, so the senders' steps
\* (HubRunRegister, HubRunUnregister, HubBroadcast) wait for ever instead
CloseInput(ch) ==
    /\ ch \notin closed
    /\ closed' = closed \cup {ch}
    /\ UNCHANGED <<registryVars, workerVars, now, broadcast, subscriberVars, smVars,
                   schedVars, cacheVars, ctxVars, replyVars>>

\* case client := <-h.register on the closed channel: the receive gives nil
\* at once and h.clients[nil] = true
HubRunRegisterClosed ==
    /\ ~hubPanicked
    /\ "register" \in closed
    /\ clients' = clients \cup {NilClient}
    /\ UNCHANGED <<registryVars, workerVars, now, broadcast, send, sendClosed, conn,
                   writer, delivered, heard, taken, hubPanicked, smVars, schedVars,
                   closeVars, cacheVars, ctxVars, replyVars>>

\* case client := <-h.unregister on the closed channel: the receive gives nil
\* at once; when nil is in h.clients it is deleted and close(client.Send)
\* dereferences the nil pointer
HubRunUnregisterClosed ==
    /\ ~hubPanicked
    /\ "unregister" \in closed
    /\ clients' = clients \ {NilClient}
    /\ hubPanicked' = (NilClient \in clients)
    /\ UNCHANGED <<registryVars, workerVars, now, broadcast, send, sendClosed, conn,
                   writer, delivered, heard, taken, smVars, schedVars, closeVars, cacheVars,
                   ctxVars, replyVars>>

\* case msg := <-h.broadcast on the closed channel once its buffer is drained:
\* the receive gives a nil payload at once and the loop over h.clients runs
\* with it; c.Send of a nil client dereferences the nil pointer
HubRunBroadcastClosed ==
    /\ ~hubPanicked
    /\ "broadcast" \in closed
    /\ broadcast = <<>>
    /\ LET bad == NilClient \in clients \/ \E c \in clients : sendClosed[c]
       IN IF bad
          THEN /\ hubPanicked' = TRUE
               /\ UNCHANGED <<clients, send, sendClosed>>
          ELSE /\ hubPanicked' = FALSE
               /\ clients' = { c \in clients : Fits(c) }
               /\ send' = [c \in Clients |->
                             IF c \in clients /\ Fits(c)
                             THEN Append(send[c], NilMsg) ELSE send[c]]
               /\ sendClosed' = [c \in Clients |->
                             IF c \in clients /\ ~Fits(c) THEN TRUE ELSE sendClosed[c]]
    /\ UNCHANGED <<registryVars, workerVars, now, broadcast, conn, writer, delivered,
                   heard, taken, smVars, schedVars, closeVars, cacheVars, ctxVars, replyVars>>

\* one turn of the loop of Hub.Run: the case its select takes
HubRun ==
    \/ \E c \in Clients : HubRunRegister(c)
    \/ \E c \in Clients : HubRunUnregister(c)
    \/ HubRunBroadcast
    \/ HubRunRegisterClosed
    \/ HubRunUnregisterClosed
    \/ HubRunBroadcastClosed

\* mutant: the writer receives the newest pending message, not the oldest
WriterWriteNewest(c) ==
    /\ writer[c] = "run"
    /\ send[c] # <<>>
    /\ send' = [send EXCEPT ![c] = SubSeq(@, 1, Len(@) - 1)]
    /\ taken' = [taken EXCEPT ![c] = Append(@, send[c][Len(send[c])])]
    /\ \/ /\ conn[c] # "gone"
          /\ delivered' = [delivered EXCEPT ![c] = Append(@, send[c][Len(send[c])])]
          /\ writer' = writer
       \/ /\ delivered' = delivered
          /\ writer' = [writer EXCEPT ![c] = "exit"]
    /\ UNCHANGED <<registryVars, workerVars, now, broadcast, clients, sendClosed,
                   conn, heard, hubPanicked, smVars, schedVars, closeVars, cacheVars, ctxVars, replyVars>>

\* the writer goroutine: one message of range client.Send, then WriteMessage,
\* which may fail (always, once the connection is closed) and end the goroutine
WriterWrite(c) ==
    /\ writer[c] = "run"
    /\ send[c] # <<>>
    /\ send' = [send EXCEPT ![c] = Tail(@)]
    /\ taken' = [taken EXCEPT ![c] = Append(@, Head(send[c]))]
    /\ \/ /\ conn[c] # "gone"
          /\ delivered' = [delivered EXCEPT ![c] = Append(@, Head(send[c]))]
          /\ writer' = writer
       \/ /\ delivered' = delivered
          /\ writer' = [writer EXCEPT ![c] = "exit"]
    /\ UNCHANGED <<registryVars, workerVars, now, broadcast, clients, sendClosed,
                   conn, heard, hubPanicked, smVars, schedVars, closeVars, cacheVars, ctxVars, replyVars>>

\* the writer goroutine: range client.Send ends on the closed, drained channel
WriterEnd(c) ==
    /\ writer[c] = "run"
    /\ send[c] = <<>>
    /\ sendClosed[c]
    /\ writer' = [writer EXCEPT ![c] = "exit"]
    /\ UNCHANGED <<registryVars, workerVars, now, broadcast, clients, send, sendClosed,
                   conn, delivered, heard, taken, hubPanicked, smVars, schedVars, closeVars, cacheVars, ctxVars, replyVars>>

\* the k-th transition of one service: down, up, down, ...
ChangeAt(k) ==
    IF k % 2 = 0 THEN [from |-> "UP", to |-> "DOWN"] ELSE [from |-> "DOWN", to |-> "UP"]

\* BroadcastStateChange called by a worker for the next transition of a
\* service; each call reads a later time.Now()
BroadcastStateChange ==
    /\ now < MaxHubEvents
    /\ HubBroadcast(EventOf(1, [name |-> "A"], ChangeAt(now), now))
    /\ now' = now + 1
    /\ UNCHANGED <<registryVars, workerVars, subscriberVars, smVars, schedVars, closeVars, cacheVars, ctxVars, replyVars>>

(* ------------------------------ scheduler ------------------------------ *)

\* the services of SpecSched, the k-th having id k
SchedNames == <<"A", "B">>

\* the interval column, in seconds
Intervals == {1, 3}

\* before the first tick
NoTick == [n |-> 0, read |-> FALSE, at |-> 0, rows |-> <<>>, failed |-> {}, jobs |-> <<>>,
           afterCancel |-> FALSE, backlog |-> 0, prevBacklog |-> 0]

\* mutant: the interval is taken for minutes
shouldRunMinutes(s, t) ==
    IF s.lastCheckedAt = Null THEN TRUE ELSE t > s.lastCheckedAt + 60 * s.interval

\* mutant: a service is due from the instant its interval has elapsed
shouldRunFromDue(s, t) ==
    IF s.lastCheckedAt = Null THEN TRUE ELSE t >= s.lastCheckedAt + s.interval

\* shouldRun(s, now): never checked, or now.After(LastCheckedAt + Interval s)
shouldRun(s, t) ==
    IF s.lastCheckedAt = Null THEN TRUE ELSE t > s.lastCheckedAt + s.interval

\* the HealthCheckJob the Scheduler builds for a service, as it reaches the queue
JobOf(s) == [body |-> "job", name |-> s.name, reqOk |-> TRUE, redelivered |-> FALSE]

\* the orders in which a range over the map of services can visit the ids in S
VisitOrders(S) ==
    { f \in [1..Cardinality(S) -> S] : \A i, j \in DOMAIN f : i # j => f[i] # f[j] }

\* mutant: a service with a job still waiting in the queue is passed over
RECURSIVE JobsOfTickSkipsQueued(_, _, _, _)
JobsOfTickSkipsQueued(rows, f, failed, t) ==
    IF f = <<>> THEN <<>>
    ELSE LET s == rows[Head(f)]
             rest == JobsOfTickSkipsQueued(rows, Tail(f), failed, t)
         IN IF /\ shouldRun(s, t)
               /\ Head(f) \notin failed
               /\ \A k \in DOMAIN queue : queue[k].name # s.name
            THEN <<JobOf(s)>> \o rest
            ELSE rest

\* mutant: the first Schedule that fails ends the round
RECURSIVE JobsOfTickAborts(_, _, _, _)
JobsOfTickAborts(rows, f, failed, t) ==
    IF f = <<>> THEN <<>>
    ELSE LET s == rows[Head(f)]
             rest == JobsOfTickAborts(rows, Tail(f), failed, t)
         IN IF shouldRun(s, t)
            THEN IF Head(f) \in failed THEN <<>> ELSE <<JobOf(s)>> \o rest
            ELSE rest

\* the messages, in order, that visiting the ids in order f puts on the queue:
\* the jobs of the services that should run and whose publication works
RECURSIVE JobsOfTick(_, _, _, _)
JobsOfTick(rows, f, failed, t) ==
    IF f = <<>> THEN <<>>
    ELSE LET s == rows[Head(f)]
             rest == JobsOfTick(rows, Tail(f), failed, t)
         IN IF shouldRun(s, t) /\ Head(f) \notin failed
            THEN <<JobOf(s)>> \o rest
            ELSE rest

\* mutant: the service list is read with a context that is never cancelled
SchedulerIgnoresCancel ==
    /\ ~stopped
    /\ tick.n < MaxTicks
    /\ \E fetchOk \in BOOLEAN :
         LET read == fetchOk /\ DOMAIN services # {}
             rows == IF read THEN services ELSE <<>>
         IN \E f \in VisitOrders(DOMAIN rows),
               failed \in SUBSET { i \in DOMAIN rows : shouldRun(rows[i], now) } :
               LET jobs == JobsOfTick(rows, f, failed, now)
               IN /\ queue' = queue \o jobs
                  /\ published' = published + Len(jobs)
                  /\ tick' = [n |-> tick.n + 1, read |-> read, at |-> now,
                              rows |-> rows, failed |-> failed, jobs |-> jobs,
                              afterCancel |-> cancelled,
                              backlog |-> Len(queue) + Len(jobs),
                              prevBacklog |-> tick.backlog]
    /\ UNCHANGED <<registryVars, wk, logs, settled, events, now, broadcast, subscriberVars,
                   smVars, closeVars, cacheVars, ctxVars, replyVars>>

\* Engine.Scheduler, one case <-ticker.C: GetAllServices(ctx) (an error, also
\* the one for an empty table and the one of a query under a cancelled ctx,
\* skips the tick), now := time.Now(), and for every service that should run
\* a Schedule whose failure is only logged. The select can take this case
\* while ctx.Done() is ready too. History: the messages waiting right after
\* this tick (backlog) and right after the one before (prevBacklog)
SchedulerRound(max) ==
    /\ ~stopped
    /\ tick.n < max
    /\ \E fetchOk \in BOOLEAN :
         LET read == fetchOk /\ ~cancelled /\ DOMAIN services # {}
             rows == IF read THEN services ELSE <<>>
         IN \E f \in VisitOrders(DOMAIN rows),
               failed \in SUBSET { i \in DOMAIN rows : shouldRun(rows[i], now) } :
               LET jobs == JobsOfTick(rows, f, failed, now)
               IN /\ queue' = queue \o jobs
                  /\ published' = published + Len(jobs)
                  /\ tick' = [n |-> tick.n + 1, read |-> read, at |-> now,
                              rows |-> rows, failed |-> failed, jobs |-> jobs,
                              afterCancel |-> cancelled,
                              backlog |-> Len(queue) + Len(jobs),
                              prevBacklog |-> tick.backlog]
    /\ UNCHANGED <<registryVars, wk, logs, settled, events, now, broadcast, subscriberVars,
                   smVars, closeVars, cacheVars, ctxVars, replyVars>>

Scheduler == SchedulerRound(MaxTicks)

\* Engine.Scheduler, case <-ctx.Done(): return nil
SchedulerStop ==
    /\ ~stopped
    /\ cancelled
    /\ stopped' = TRUE
    /\ UNCHANGED <<registryVars, workerVars, now, broadcast, subscriberVars, smVars,
                   schedVars, closeVars, cacheVars, cancelled, replyVars>>

\* the caller of Engine.Scheduler(ctx) cancels ctx
Cancel ==
    /\ ~cancelled
    /\ cancelled' = TRUE
    /\ UNCHANGED <<registryVars, workerVars, now, broadcast, subscriberVars, smVars,
                   schedVars, closeVars, cacheVars, stopped, replyVars>>

\* the wall clock moves on by a second
ClockAdvance ==
    /\ now < MaxTime
    /\ now' = now + 1
    /\ UNCHANGED <<registryVars, workerVars, broadcast, subscriberVars, smVars, schedVars, closeVars, cacheVars, ctxVars, replyVars>>

\* ticker := time.NewTicker(5 * time.Second): the seconds between two ticks
TickPeriod == 5

\* the wall clock moves on by a second, up to the time of the next tick
TimePasses ==
    /\ now < MaxClock
    /\ now < tick.at + TickPeriod
    /\ now' = now + 1
    /\ UNCHANGED <<registryVars, workerVars, broadcast, subscriberVars, smVars, schedVars,
                   closeVars, cacheVars, ctxVars, replyVars>>

\* case <-ticker.C at the time the ticker fires
SchedulerOnTick ==
    /\ now = tick.at + TickPeriod
    /\ SchedulerRound(MaxClock \div TickPeriod)

(* ------------------- the state machine, call after call ---------------- *)

\* calls of UpdateServiceState made in one run of SpecSM
MaxCalls == 5

\* one job's GetServiceByName and UpdateServiceState with nothing in between
UpdateServiceStateCall(success, dbOk) ==
    /\ Len(calls) < MaxCalls
    /\ \E i \in DOMAIN services :
         LET r == UpdateServiceState([id |-> i] @@ services[i], success, dbOk, now)
         IN /\ services' = TableAfter(r)
            /\ calls' = Append(calls, [success |-> success, saved |-> r.saved,
                                       before |-> services[i], after |-> services'[i],
                                       change |-> r.change])
    /\ UNCHANGED <<nextID, registered, workerVars, now, broadcast, subscriberVars, schedVars, closeVars, cacheVars, ctxVars, replyVars>>

\* the service is registered once, before the first call
RegisterOnce ==
    /\ DOMAIN services = {}
    /\ Register

(* ------------------- the map cache.MapExternalServices ------------------ *)

\* no range over the map is under way, and none was so far
NoRange == [on |-> FALSE, n |-> 0, at |-> 0, found |-> <<>>, left |-> {}, visited |-> <<>>,
            raced |-> FALSE]

\* what a write of the map by a handler does to the Scheduler's range over the
\* same map, the ids in W being new keys: no range under way, nothing. Under
\* way, the write is a data race with the iteration: the runtime may detect it
\* and end the process, and if the range goes on it produces each new key or
\* does not
WriteDuringRange(W) ==
    IF ~ranging.on
    THEN UNCHANGED <<ranging, mapFault>>
    ELSE \/ /\ mapFault' = TRUE
            /\ ranging' = [ranging EXCEPT !.raced = TRUE]
         \/ /\ mapFault' = FALSE
            /\ \E V \in SUBSET W :
                 ranging' = [ranging EXCEPT !.raced = TRUE, !.left = @ \cup V]

\* Engine.RegisterService, the handler as a whole: the repository's
\* RegisterService, on its error a 500 and nothing else, and otherwise
\* cache.MapExternalServices[service.ID] = service
RegisterServiceHandler(s) ==
    /\ ~mapFault
    /\ Validate(s)
    /\ registered < MaxRegisters
    /\ registered' = registered + 1
    /\ IF s.id = 0 THEN SaveNew(s) ELSE SaveWithID(s)
    /\ LET id == IF s.id = 0 THEN nextID ELSE s.id
           saved == s.id # 0 \/ nextID \notin DOMAIN services
       IN IF saved
          THEN /\ MapExternalServices' = (id :> services'[id]) @@ MapExternalServices
               /\ WriteDuringRange({id} \ DOMAIN MapExternalServices)
          ELSE UNCHANGED cacheVars
    /\ UNCHANGED <<workerVars, now, broadcast, subscriberVars, smVars, schedVars, closeVars,
                   ctxVars, replyVars>>

\* DbRepository.GetAllServices, the part both callers share: the query, an
\* error for a failed query and for an empty table, and otherwise every row
\* stored in the map under its id, the map itself being what is returned
GetAllServices(fetchOk) ==
    IF fetchOk /\ DOMAIN services # {}
    THEN MapExternalServices' = services @@ MapExternalServices
    ELSE MapExternalServices' = MapExternalServices

\* Engine.ListServices: GetAllServices and the answer
ListServices ==
    /\ ~mapFault
    /\ \E fetchOk \in BOOLEAN :
         /\ GetAllServices(fetchOk)
         /\ IF fetchOk /\ DOMAIN services # {}
            THEN WriteDuringRange(DOMAIN services \ DOMAIN MapExternalServices)
            ELSE UNCHANGED <<ranging, mapFault>>
    /\ UNCHANGED <<registryVars, workerVars, now, broadcast, subscriberVars, smVars, schedVars,
                   closeVars, ctxVars, replyVars>>

\* Engine.Scheduler, case <-ticker.C up to the range statement:
\* GetAllServices(ctx), on its error the next tick, now := time.Now(), and the
\* range over the returned map begins
SchedulerFetch ==
    /\ ~mapFault
    /\ ~ranging.on
    /\ ranging.n < MaxTicks
    /\ \E fetchOk \in BOOLEAN :
         /\ GetAllServices(fetchOk)
         /\ ranging' = IF fetchOk /\ DOMAIN services # {}
                       THEN [on |-> TRUE, n |-> ranging.n + 1, at |-> now,
                             found |-> services, left |-> DOMAIN MapExternalServices',
                             visited |-> <<>>, raced |-> FALSE]
                       ELSE [ranging EXCEPT !.n = @ + 1]
    /\ UNCHANGED <<registryVars, workerVars, now, broadcast, subscriberVars, smVars, schedVars,
                   closeVars, mapFault, ctxVars, replyVars>>

\* Engine.Scheduler, one iteration of `for _, s := range services`: s is what
\* the map holds under the key now, a service that should run gets a job, and
\* a Schedule that fails is only logged. The range ends after the last key
SchedulerVisit ==
    /\ ~mapFault
    /\ ranging.on
    /\ \E id \in ranging.left :
         LET s == MapExternalServices[id]
             left == ranging.left \ {id}
         IN /\ ranging' = [ranging EXCEPT !.left = left, !.on = (left # {}),
                                          !.visited = Append(@, [id |-> id, row |-> s])]
            /\ \/ /\ shouldRun(s, ranging.at)
                  /\ queue' = Append(queue, JobOf(s))
                  /\ published' = published + 1
               \/ UNCHANGED <<queue, published>>
    /\ UNCHANGED <<registryVars, wk, logs, settled, events, now, broadcast, subscriberVars,
                   smVars, schedVars, closeVars, MapExternalServices, mapFault, ctxVars,
                   replyVars>>

(* --------------------------- specifications ---------------------------- *)

Init ==
    /\ services = <<>>
    /\ nextID = 1
    /\ queue = <<>>
    /\ published = 0
    /\ wk = [w \in Workers |-> Idle]
    /\ logs = <<>>
    /\ settled = [ack |-> 0, nack |-> 0, requeued |-> 0, invalid |-> 0, notFound |-> 0]
    /\ events = <<>>
    /\ registered = 0
    /\ now = 0
    /\ broadcast = <<>>
    /\ clients = {}
    /\ send = [c \in Clients |-> <<>>]
    /\ sendClosed = [c \in Clients |-> FALSE]
    /\ conn = [c \in Clients |-> "none"]
    /\ writer = [c \in Clients |-> "none"]
    /\ delivered = [c \in Clients |-> <<>>]
    /\ heard = [c \in Clients |-> <<>>]
    /\ taken = [c \in Clients |-> <<>>]
    /\ hubPanicked = FALSE
    /\ calls = <<>>
    /\ tick = NoTick
    /\ closed = {}
    /\ MapExternalServices = <<>>
    /\ ranging = NoRange
    /\ mapFault = FALSE
    /\ cancelled = FALSE
    /\ stopped = FALSE
    /\ reply = NoReply

Next ==
    \/ Register
    \/ Publish
    \/ \E w \in Deployed : StartWorker(w)
    \/ HubRunBroadcast

Spec == Init /\ [][Next]_vars

NextSM ==
    \/ RegisterOnce
    \/ \E success \in BOOLEAN, dbOk \in BOOLEAN : UpdateServiceStateCall(success, dbOk)

SpecSM == Init /\ [][NextSM]_vars

\* the registration endpoint, called with any body
NextRegistry == RegisterAndReply

SpecRegistry == Init /\ [][NextRegistry]_vars

\* two worker instances consume from the same queue; the service is
\* registered once
NextMW ==
    \/ RegisterOnce
    \/ Publish
    \/ \E w \in Workers : StartWorker(w)
    \/ HubRunBroadcast

SpecMW == Init /\ [][NextMW]_vars

\* the deployed worker, a process that can die with a message in hand, and a
\* broker that delivers the message again; the service is registered once
NextCrash ==
    \/ RegisterOnce
    \/ Publish
    \/ \E w \in Deployed : StartWorker(w)
    \/ \E w \in Deployed : WorkerCrash(w)
    \/ HubRunBroadcast

SpecCrash == Init /\ [][NextCrash]_vars

\* the deployed worker and hub, over a single registration
NextWorker ==
    \/ RegisterOnce
    \/ Publish
    \/ \E w \in Deployed : StartWorker(w)
    \/ HubRunBroadcast

SpecWorker == Init /\ [][NextWorker]_vars

\* the deployed worker and hub while the process's context is cancelled at
\* some point; StartWorker takes no context and its registry calls run under
\* context.Background()
NextCancel ==
    \/ RegisterOnce
    \/ Publish
    \/ \E w \in Deployed : StartWorker(w)
    \/ HubRunBroadcast
    \/ Cancel

SpecCancel == Init /\ [][NextCancel]_vars

NextHub ==
    \/ \E c \in Clients : HubRunRegister(c)
    \/ \E c \in Clients : ReaderReturn(c)
    \/ \E c \in Clients : HubRunUnregister(c)
    \/ \E c \in Clients : WriterWrite(c)
    \/ \E c \in Clients : WriterEnd(c)
    \/ BroadcastStateChange
    \/ HubRunBroadcast

SpecHub == Init /\ [][NextHub]_vars

\* the connections made to the websocket endpoint in a run of SpecSubs
Subscribers == {"c1"}

\* the deployed worker and hub over a single registration, fed the
\* Scheduler's jobs, with subscribers that come, drain their buffers or do
\* not, get evicted and leave
NextSubs ==
    \/ RegisterOnce
    \/ Feed
    \/ \E w \in Deployed : StartWorker(w)
    \/ HubRunBroadcast
    \/ \E c \in Subscribers : HubRunRegister(c)
    \/ \E c \in Subscribers : ReaderReturn(c)
    \/ \E c \in Subscribers : HubRunUnregister(c)
    \/ \E c \in Subscribers : WriterWrite(c)
    \/ \E c \in Subscribers : WriterEnd(c)

SpecSubs == Init /\ [][NextSubs]_vars

\* the channels of the Hub
HubInputs == {"register", "unregister", "broadcast"}

\* the Hub with subscribers that come and go and do not drain their buffers,
\* a worker that broadcasts, and channels that get closed at any moment
NextHubClose ==
    \/ HubRun
    \/ \E c \in Clients : ReaderReturn(c)
    \/ BroadcastStateChange
    \/ \E ch \in HubInputs : CloseInput(ch)

SpecHubClose == Init /\ [][NextHubClose]_vars

\* the scheduling SpecHubClose leaves open: Hub.Run's select picks among its
\* ready cases at random, and a case on a closed channel is ready every time
\* the select is reached
SpecHubCloseFair ==
    /\ SpecHubClose
    /\ WF_vars(HubRunBroadcast)
    /\ WF_vars(HubRunRegisterClosed)
    /\ WF_vars(HubRunUnregisterClosed)
    /\ WF_vars(HubRunBroadcastClosed)

\* the two endpoints that write the map, and the Scheduler ranging over it
NextCache ==
    \/ \E s \in ValidRequests : RegisterServiceHandler(s)
    \/ ListServices
    \/ SchedulerFetch
    \/ SchedulerVisit

SpecCache == Init /\ [][NextCache]_vars

\* the rows of a table of valid services, checked or not so far
SchedRows ==
    { [name |-> "", T |-> 1, interval |-> i, status |-> st, cf |-> 0, lastCheckedAt |-> l] :
        i \in Intervals, st \in {"UP", "DOWN"}, l \in {Null} \cup 0..2 }

\* the table holds any number of the services of SchedNames, whatever their
\* intervals and the times of their last checks
InitSched ==
    /\ \E n \in 0..Len(SchedNames) :
         \E rows \in [1..n -> SchedRows] :
            services = [k \in 1..n |-> [rows[k] EXCEPT !.name = SchedNames[k]]]
    /\ nextID = 1
    /\ queue = <<>>
    /\ published = 0
    /\ wk = [w \in Workers |-> Idle]
    /\ logs = <<>>
    /\ settled = [ack |-> 0, nack |-> 0, requeued |-> 0, invalid |-> 0, notFound |-> 0]
    /\ events = <<>>
    /\ registered = 0
    /\ now = 0
    /\ broadcast = <<>>
    /\ clients = {}
    /\ send = [c \in Clients |-> <<>>]
    /\ sendClosed = [c \in Clients |-> FALSE]
    /\ conn = [c \in Clients |-> "none"]
    /\ writer = [c \in Clients |-> "none"]
    /\ delivered = [c \in Clients |-> <<>>]
    /\ heard = [c \in Clients |-> <<>>]
    /\ taken = [c \in Clients |-> <<>>]
    /\ hubPanicked = FALSE
    /\ calls = <<>>
    /\ tick = NoTick
    /\ closed = {}
    /\ MapExternalServices = <<>>
    /\ ranging = NoRange
    /\ mapFault = FALSE
    /\ cancelled = FALSE
    /\ stopped = FALSE
    /\ reply = NoReply

\* one service with an interval of a second, never checked so far
InitTimed ==
    /\ services = <<[name |-> "A", T |-> 1, interval |-> 1, status |-> "UP", cf |-> 0,
                     lastCheckedAt |-> Null]>>
    /\ nextID = 2
    /\ queue = <<>>
    /\ published = 0
    /\ wk = [w \in Workers |-> Idle]
    /\ logs = <<>>
    /\ settled = [ack |-> 0, nack |-> 0, requeued |-> 0, invalid |-> 0, notFound |-> 0]
    /\ events = <<>>
    /\ registered = 1
    /\ now = 0
    /\ broadcast = <<>>
    /\ clients = {}
    /\ send = [c \in Clients |-> <<>>]
    /\ sendClosed = [c \in Clients |-> FALSE]
    /\ conn = [c \in Clients |-> "none"]
    /\ writer = [c \in Clients |-> "none"]
    /\ delivered = [c \in Clients |-> <<>>]
    /\ heard = [c \in Clients |-> <<>>]
    /\ taken = [c \in Clients |-> <<>>]
    /\ hubPanicked = FALSE
    /\ calls = <<>>
    /\ tick = NoTick
    /\ closed = {}
    /\ MapExternalServices = <<>>
    /\ ranging = NoRange
    /\ mapFault = FALSE
    /\ cancelled = FALSE
    /\ stopped = FALSE
    /\ reply = NoReply

\* the Scheduler on its ticker, the deployed worker and the Hub, with the
\* wall clock
NextTimed ==
    \/ TimePasses
    \/ SchedulerOnTick
    \/ \E w \in Deployed : WorkerIteration(w)
    \/ HubRunBroadcast

SpecTimed == InitTimed /\ [][NextTimed]_vars

\* the deployed worker and hub over one registered service, fed the
\* Scheduler's jobs, the probes meeting every kind of answer
NextProbe ==
    \/ Feed
    \/ \E w \in Deployed :
          \/ WorkerConsume(w)
          \/ WorkerLoad(w)
          \/ WorkerProbeOver(w, ProbeResponses)
          \/ WorkerLog(w)
          \/ WorkerUpdate(w)
          \/ WorkerEmit(w)
          \/ WorkerAck(w)
    \/ HubRunBroadcast

SpecProbe == InitTimed /\ [][NextProbe]_vars

NextSched ==
    \/ Scheduler
    \/ ClockAdvance
    \/ Cancel
    \/ SchedulerStop

SpecSched == InitSched /\ [][NextSched]_vars

\* the scheduling SpecSched leaves open: once ctx is cancelled the select of
\* Engine.Scheduler has the case <-ctx.Done() ready every time it is reached,
\* and it picks among its ready cases at random, so that case is taken
SpecSchedFair == SpecSched /\ WF_vars(SchedulerStop)

\* the scheduling SpecHub leaves open: Hub.Run's select takes a waiting
\* broadcast (it picks among its ready cases at random, so a ready case is not
\* passed over for ever), and the worker's send on the channel goes through
\* once the channel has room
SpecHubFair ==
    SpecHub /\ WF_vars(HubRunBroadcast) /\ WF_vars(BroadcastStateChange)

(* =============================== claims ================================ *)

(* ------------- the state machine, under SpecSM (history: calls) -------- *)

\* the calls whose Save worked: the completed state updates
Saved == { k \in 1..Len(calls) : calls[k].saved }

\* C1 (as claimed): after each completed update_state of a registered service,
\* status = DOWN if and only if consecutive_failures >= failure_threshold.
C1_DownIffAtThreshold ==
    \A k \in Saved :
        (calls[k].after.status = "DOWN") <=> (calls[k].after.cf >= calls[k].after.T)

\* C2 (as claimed): after each completed update_state, a stored status of UP
\* implies consecutive_failures = 0.
C2_UpImpliesZero ==
    \A k \in Saved : calls[k].after.status = "UP" => calls[k].after.cf = 0

\* C2 (amended): after each completed update_state, a stored status of UP
\* implies consecutive_failures < failure_threshold.
C2_UpImpliesBelowThreshold ==
    \A k \in Saved : calls[k].after.status = "UP" => calls[k].after.cf < calls[k].after.T

\* C2's case: a completed failure update left the service UP with a counter above 0
C2_Witness ==
    \E k \in Saved :
        ~calls[k].success /\ calls[k].after.status = "UP" /\ calls[k].after.cf > 0

\* calls i..j are failure outcomes, each one saved
FailuresSaved(i, j) == \A k \in i..j : ~calls[k].success /\ calls[k].saved

\* call i starts at UP with counter 0 and begins T saved failures in a row
StartsRun(i) ==
    /\ calls[i].before.status = "UP"
    /\ calls[i].before.cf = 0
    /\ i + calls[i].before.T - 1 <= Len(calls)
    /\ FailuresSaved(i, i + calls[i].before.T - 1)

\* C4: from UP with counter 0, T failures in a row end in DOWN with counter T,
\* and the only event is UP to DOWN, returned by the T-th of them.
C4_ThresholdFailures ==
    \A i \in 1..Len(calls) :
        StartsRun(i) =>
            LET T == calls[i].before.T
                last == i + T - 1
            IN /\ calls[last].after.status = "DOWN"
               /\ calls[last].after.cf = T
               /\ calls[last].change = <<[from |-> "UP", to |-> "DOWN"]>>
               /\ \A k \in i..(last - 1) : calls[k].change = <<>>

\* C4's case: a run of T >= 2 failures from UP with counter 0 has been applied
C4_Witness ==
    \E i \in 1..Len(calls) : StartsRun(i) /\ calls[i].before.T >= 2

\* C5: from a stored DOWN, whatever the counter, one success gives UP with
\* counter 0 and the event DOWN to UP; a success right after it gives no event.
C5_Recovery ==
    \A i \in Saved :
        (calls[i].before.status = "DOWN" /\ calls[i].success) =>
            /\ calls[i].after.status = "UP"
            /\ calls[i].after.cf = 0
            /\ calls[i].change = <<[from |-> "DOWN", to |-> "UP"]>>
            /\ (i + 1 <= Len(calls) /\ calls[i + 1].success) => calls[i + 1].change = <<>>

\* C5's case: a success from DOWN with a counter above the threshold, and a
\* second success after it
C5_Witness ==
    \E i \in Saved :
        /\ calls[i].before.status = "DOWN"
        /\ calls[i].before.cf > calls[i].before.T
        /\ calls[i].success
        /\ i + 1 <= Len(calls)
        /\ calls[i + 1].success

\* the row of the transition table of the state machine for (status, n, T, success)
TableRow(status, n, T, success) ==
    IF success
    THEN [status |-> "UP", cf |-> 0,
          change |-> IF status = "DOWN" THEN <<[from |-> "DOWN", to |-> "UP"]>> ELSE <<>>]
    ELSE [status |-> IF n + 1 >= T \/ status = "DOWN" THEN "DOWN" ELSE "UP",
          cf |-> n + 1,
          change |-> IF status = "UP" /\ n + 1 >= T
                     THEN <<[from |-> "UP", to |-> "DOWN"]>> ELSE <<>>]

\* C6: for status UP or DOWN, every counter and threshold and both outcomes, a
\* completed UpdateServiceState gives the status, counter and event of the table.
C6_TransitionTable ==
    \A k \in Saved :
        calls[k].before.status \in {"UP", "DOWN"} =>
            LET row == TableRow(calls[k].before.status, calls[k].before.cf,
                                calls[k].before.T, calls[k].success)
            IN /\ calls[k].after.status = row.status
               /\ calls[k].after.cf = row.cf
               /\ calls[k].change = row.change

\* C6's case: a failure while DOWN has counted past the threshold
C6_Witness ==
    \E k \in Saved :
        /\ calls[k].before.status = "DOWN"
        /\ ~calls[k].success
        /\ calls[k].after.cf = calls[k].after.T + 1

(* ------------------------ the pipeline, under Spec --------------------- *)

\* C3 (as claimed): with one worker, a processed job hands an event to the Hub
\* if and only if the stored status after update_state differs from the stored
\* status before it.
C3_EventIffStoredChange ==
    \A w \in Workers :
        wk[w].pc = "ack" => (wk[w].handed <=> (wk[w].before # wk[w].after))

\* C7 (as claimed): every event handed to the Hub has from and to in
\* {UP, DOWN} and from different from to.
C7_EventEndpoints ==
    \A k \in 1..Len(broadcast) :
        /\ broadcast[k].from \in {"UP", "DOWN"}
        /\ broadcast[k].to \in {"UP", "DOWN"}
        /\ broadcast[k].from # broadcast[k].to

\* the request bodies that supply no id and no state field
PlainRequests ==
    { s \in ValidRequests :
        s.id = 0 /\ s.status = "" /\ s.cf = 0 /\ s.lastCheckedAt = Null }

\* C8 (as claimed): a successful register that supplies no state fields stores
\* status UP, consecutive_failures 0 and last_checked_at null.
C8_RegisteredUp ==
    [][\A s \in PlainRequests :
         (RegisterService(s) /\ nextID \in DOMAIN services') =>
             /\ services'[nextID].status = "UP"
             /\ services'[nextID].cf = 0
             /\ services'[nextID].lastCheckedAt = Null]_vars

(* --------------------------- the hub, under SpecHub -------------------- *)

\* the step of Hub.Run that takes a message off the broadcast channel
TakesBroadcast == Len(broadcast') < Len(broadcast)

\* a subscriber whose writer goroutine has ended: it never drains again
Stalled(c) == c \in clients /\ writer[c] = "exit"

\* C9: with a stalled subscriber in the set, the Hub never waits to process a
\* broadcast, every other subscriber whose buffer has room gets the message
\* and stays, and the stalled one is removed once its buffer is full.
C9_StalledDoesNotDelay ==
    /\ []((broadcast # <<>> /\ ~hubPanicked) => ENABLED HubRunBroadcast)
    /\ [][TakesBroadcast =>
            \A s \in Clients : Stalled(s) =>
                /\ \A c \in clients \ {s} : Fits(c) =>
                       /\ send'[c] = Append(send[c], Head(broadcast))
                       /\ c \in clients'
                /\ ~Fits(s) => s \notin clients']_vars

\* C9's case: a stalled subscriber was dropped with a full buffer while another
\* subscriber, still in the set, has been written more messages than a buffer holds
C9_Witness ==
    \E s \in Clients, c \in clients :
        /\ s # c
        /\ s \notin clients
        /\ writer[s] = "exit"
        /\ conn[s] = "open"
        /\ sendClosed[s]
        /\ Len(send[s]) = SendCap
        /\ Len(delivered[c]) > SendCap

\* C10: a broadcast met by fewer than SendCap pending messages is enqueued and
\* the subscriber stays; one met by exactly SendCap pending messages removes the
\* subscriber, closes its buffer and is not enqueued; no buffer holds more.
C10_EvictionAtCapacity ==
    /\ [](\A c \in Clients : Len(send[c]) <= SendCap)
    /\ [][TakesBroadcast =>
            \A c \in clients :
                /\ Len(send[c]) < SendCap =>
                       /\ send'[c] = Append(send[c], Head(broadcast))
                       /\ c \in clients'
                       /\ ~sendClosed'[c]
                /\ Len(send[c]) = SendCap =>
                       /\ c \notin clients'
                       /\ sendClosed'[c]
                       /\ send'[c] = send[c]]_vars

\* C10's case: a subscriber whose writer is still running was dropped by a
\* broadcast that met a full buffer
C10_Witness ==
    \E c \in Clients :
        /\ c \notin clients
        /\ conn[c] = "open"
        /\ writer[c] = "run"
        /\ sendClosed[c]
        /\ Len(send[c]) = SendCap

\* C11: for every subscriber still in the set (never evicted, never
\* unregistered), the messages its writer has taken out of its buffer, followed
\* by the ones still pending in it, are exactly the broadcasts the Hub took
\* while the subscriber was in the set, in the Hub's order.
C11_DeliveryOrder ==
    \A c \in clients : taken[c] \o send[c] = heard[c]

\* C11's case: a subscriber that joined after the Hub had already processed a
\* broadcast has taken two messages out of its buffer and has one more pending
C11_Witness ==
    \E c \in clients :
        /\ Len(taken[c]) >= 2
        /\ send[c] # <<>>
        /\ heard[c][1].timestamp > 0

\* C12: every emit of the worker returns, whatever the subscribers and their
\* buffers are. Under SpecHub the worker emits one event after the other and
\* now counts the calls of Hub.Broadcast that have returned (a call waits only
\* while the broadcast channel is full), so an emit that never returned would
\* keep now below MaxHubEvents for ever.
C12_EmitReturns == <>(now = MaxHubEvents)

\* C12's case: the worker's emit waits on a full broadcast channel while a
\* subscriber that never drains again sits in the set with a full buffer
C12_Witness ==
    /\ now < MaxHubEvents
    /\ Len(broadcast) = BroadcastCap
    /\ \E s \in Clients : Stalled(s) /\ Len(send[s]) = SendCap

\* Hub.Run never dies of a send on, or a second close of, a closed channel
HubNeverPanics == ~hubPanicked

(* ----------------------- the scheduler, under SpecSched ---------------- *)

\* the jobs for the service named n among the messages q
JobsFor(q, n) == { k \in DOMAIN q : q[k].name = n }

\* the due-time rule: never checked, or the tick is strictly later than the
\* last check plus the interval
Due(s, t) == s.lastCheckedAt = Null \/ t > s.lastCheckedAt + s.interval

\* C13: on a tick that read the service list, a service whose publication
\* did not fail gets exactly one job if it is due at the tick time and none
\* otherwise, and the tick puts just these jobs on the queue.
C13_OneJobPerDueService ==
    tick.read =>
        /\ \A i \in DOMAIN tick.rows \ tick.failed :
              Cardinality(JobsFor(tick.jobs, tick.rows[i].name)) =
                  IF Due(tick.rows[i], tick.at) THEN 1 ELSE 0
        /\ SubSeq(queue, Len(queue) - Len(tick.jobs) + 1, Len(queue)) = tick.jobs

\* C13's case: two services with intervals 1 and 3, both checked 2 seconds
\* before the tick: one job for the first, none for the second
C13_Witness ==
    /\ tick.read
    /\ tick.failed = {}
    /\ DOMAIN tick.rows = {1, 2}
    /\ tick.rows[1].interval = 1
    /\ tick.rows[2].interval = 3
    /\ tick.rows[1].lastCheckedAt = tick.at - 2
    /\ tick.rows[2].lastCheckedAt = tick.at - 2
    /\ tick.jobs = <<JobOf(tick.rows[1])>>

(* ------------------ the worker's steps, under Spec and SpecCrash ------- *)

\* the step in which worker w acknowledges the message in hand
Acks(w) ==
    /\ wk[w].pc = "ack"
    /\ wk'[w] = Idle
    /\ settled'.ack = settled.ack + 1

\* C14 (as claimed): whenever the worker acks a job, exactly one probe log
\* entry was appended in that processing of the job, also when the log insert fails.
C14_OneLogPerAck ==
    [][\A w \in Workers : Acks(w) => wk[w].logged = 1]_vars

\* C15: in every processing of a job, UpdateServiceState has been called only
\* if SaveServiceCheckLog was called before it for the same job.
C15_LogBeforeUpdate ==
    \A w \in Workers : wk[w].updated => wk[w].logTried

\* C15's case: a redelivered job whose log insert failed has had its state update
C15_Witness ==
    \E w \in Workers :
        /\ wk[w].job.redelivered
        /\ wk[w].updated
        /\ wk[w].logTried
        /\ wk[w].logged = 0

\* C16: the worker acks a job only after UpdateServiceState has returned for it
\* and, if it returned a transition, after the event was handed to the Hub.
C16_AckAfterUpdateAndEmit ==
    [][\A w \in Workers :
         Acks(w) => /\ wk[w].updated
                    /\ wk[w].stateChange # <<>> => wk[w].handed]_vars

\* C16's case: every message has been acked, none was ever requeued, and one
\* of them led to a transition whose event was handed to the Hub
C16_Witness ==
    /\ settled.ack >= 1
    /\ settled.requeued = 0
    /\ events # <<>>
    /\ queue = <<>>
    /\ \A w \in Workers : wk[w].pc = "consume"

(* ---------------- two workers on one queue, under SpecMW --------------- *)

\* the calls of UpdateServiceState whose Save worked, in the order of the Saves
Applied == SelectSeq(calls, LAMBDA c : c.saved)

\* the record that results from row r when the outcomes of the calls q are
\* applied to it one after the other, in the order f of their indices
RECURSIVE Serial(_, _, _)
Serial(r, q, f) ==
    IF f = <<>> THEN r
    ELSE Serial(Advance(r, q[Head(f)].success, now), q, Tail(f))

\* C17 (as claimed): the stored status and counter are at all times what some
\* sequential order of the completed update_state calls gives, starting from
\* the record as it was stored before the first of them.
C17_Serializable ==
    Applied # <<>> =>
        \A i \in DOMAIN services :
            \E f \in VisitOrders(DOMAIN Applied) :
                LET r == Serial(Applied[1].before, Applied, f)
                IN r.status = services[i].status /\ r.cf = services[i].cf

\* no message is waiting or in a worker's hands
Quiet == queue = <<>> /\ \A w \in Workers : wk[w].pc = "consume"

\* the changes of the stored status made by UpdateServiceState, in order
StoredChanges ==
    LET q == SelectSeq(calls, LAMBDA c : c.before.status # c.after.status)
    IN [k \in DOMAIN q |-> [from |-> q[k].before.status, to |-> q[k].after.status]]

\* how often x occurs in the sequence q
Count(q, x) == Cardinality({ k \in DOMAIN q : q[k] = x })

\* the transitions that were stored or announced
Transitions == { StoredChanges[k] : k \in DOMAIN StoredChanges } \cup
               { events[k] : k \in DOMAIN events }

\* C18 (as claimed): once every job has been processed, the events handed to
\* the Hub match the changes of the stored status one for one: as many events
\* from x to y as changes of the stored status from x to y.
C18_EventsMatchChanges ==
    Quiet => \A x \in Transitions : Count(events, x) = Count(StoredChanges, x)

(* -------------- crash and redelivery, under SpecCrash ------------------ *)

\* status = DOWN iff consecutive_failures >= failure_threshold
Consistent(r) == (r.status = "DOWN") <=> (r.cf >= r.T)

\* C19 (as claimed): when the worker has processed a redelivered job up to
\* the ack and its state update was saved, it has written a log entry for it
\* and applied the state machine again, and the stored record has status DOWN
\* iff its counter has reached the threshold.
C19_RedeliveryKeepsInvariant ==
    \A w \in Workers :
        (wk[w].pc = "ack" /\ wk[w].job.redelivered /\ calls[Len(calls)].saved) =>
            /\ wk[w].logTried
            /\ wk[w].updated
            /\ Consistent(services[wk[w].service.id])

\* every completed update_state, of a first or a second delivery, leaves a
\* consistent record if it found one
UpdatePreservesConsistent ==
    \A k \in Saved : Consistent(calls[k].before) => Consistent(calls[k].after)

\* C20 (as claimed): once every job has been processed, redeliveries
\* included, every persisted change of status has its own matching event
\* handed to the Hub.
C20_NoTransitionLost ==
    Quiet => \A x \in Transitions : Count(events, x) >= Count(StoredChanges, x)

(* ------------- sequences of outcomes, under SpecSM (history: calls) ---- *)

\* C21: N >= 0 saved failure outcomes followed by one saved success outcome
\* leave the service with status UP and consecutive_failures 0, whatever the
\* threshold and the record they started from.
C21_FailuresThenSuccess ==
    \A i \in 1..Len(calls), j \in 1..Len(calls) :
        (i <= j /\ FailuresSaved(i, j - 1) /\ calls[j].success /\ calls[j].saved) =>
            /\ calls[j].after.status = "UP"
            /\ calls[j].after.cf = 0

\* C21's case: more failures than the threshold, which took the service from
\* UP to DOWN, and then a success
C21_Witness ==
    \E i \in 1..Len(calls), j \in 1..Len(calls) :
        /\ j - i > calls[i].before.T
        /\ calls[i].before.T >= 2
        /\ calls[i].before.status = "UP"
        /\ FailuresSaved(i, j - 1)
        /\ calls[j - 1].after.status = "DOWN"
        /\ calls[j].success
        /\ calls[j].saved

\* C22: when the stored status is UP, a second saved success right after a
\* saved success leaves status and consecutive_failures as the first left
\* them, and returns no transition.
C22_SuccessTwice ==
    \A k \in 1..(Len(calls) - 1) :
        ( /\ calls[k].before.status = "UP"
          /\ calls[k].success /\ calls[k].saved
          /\ calls[k + 1].success /\ calls[k + 1].saved ) =>
            /\ calls[k + 1].after.status = calls[k].after.status
            /\ calls[k + 1].after.cf = calls[k].after.cf
            /\ calls[k + 1].change = <<>>

\* C22's case: two saved successes in a row on a service stored as UP with a
\* failure counted
C22_Witness ==
    \E k \in 1..(Len(calls) - 1) :
        /\ calls[k].before.status = "UP"
        /\ calls[k].before.cf > 0
        /\ calls[k].success /\ calls[k].saved
        /\ calls[k + 1].success /\ calls[k + 1].saved

(* ------------- the worker's failure paths, under SpecWorker ------------ *)

\* the step in which a worker finds that the message at the head of the
\* queue does not decode as a job
TakesInvalid ==
    /\ queue # <<>>
    /\ Head(queue).body # "job"
    /\ settled'.invalid = settled.invalid + 1

\* C23: a message that does not decode as a job is nacked and not put back
\* on the queue; taking it makes no probe, appends no log entry, changes no
\* service record, hands no event to the Hub, and leaves the worker at the
\* top of its loop, ready for the next message.
C23_InvalidJobNacked ==
    [][TakesInvalid =>
          /\ settled' = [settled EXCEPT !.nack = @ + 1, !.invalid = @ + 1]
          /\ queue' = Tail(queue)
          /\ wk' = wk
          /\ \E w \in Workers : wk'[w].pc = "consume" /\ wk'[w].status = ""
          /\ logs' = logs
          /\ services' = services
          /\ events' = events
          /\ broadcast' = broadcast]_vars

\* C23's case: an undecodable message was nacked and the worker has taken
\* the next message and probed its service
C23_Witness ==
    /\ settled.invalid = 1
    /\ settled.nack = 1
    /\ queue = <<>>
    /\ wk["w1"].pc = "log"

\* the step in which worker w, having decoded a job, gets the answer of the
\* Registry for its service_name, no stored service having that name
ResolvesNone(w) ==
    /\ wk[w].pc = "load"
    /\ \A i \in DOMAIN services : services[i].name # wk[w].job.name
    /\ wk'[w] # wk[w]

\* C24 (as claimed): a job whose service_name is the name of no stored service
\* is nacked and not put back on the queue, and its processing makes no
\* probe, appends no log entry, changes no service record and hands no event
\* to the Hub.
C24_UnknownServiceNacked ==
    [][\A w \in Deployed :
         ResolvesNone(w) =>
            /\ settled' = [settled EXCEPT !.nack = @ + 1, !.notFound = @ + 1]
            /\ wk'[w] = Idle
            /\ wk[w].status = ""
            /\ queue' = queue
            /\ logs' = logs
            /\ services' = services
            /\ events' = events
            /\ broadcast' = broadcast]_vars

\* the step in which worker w's UpdateServiceState returns a write error
UpdateFails(w) ==
    /\ wk[w].pc = "update"
    /\ Len(calls') = Len(calls) + 1
    /\ ~calls'[Len(calls')].saved

\* the step worker w takes once it is past the state update and the emit
LeavesAck(w) == wk[w].pc = "ack" /\ wk'[w] # wk[w]

LogFails(w) == wk[w].pc = "log" /\ wk'[w] # wk[w] /\ logs' = logs

\* the step that ends a processing by worker w whose log insert had failed
EndsUnlogged(w) ==
    /\ wk[w].logTried
    /\ wk[w].logged = 0
    /\ wk'[w] = Idle

Busy == { w \in Workers : wk[w].pc # "consume" }

\* C27: every message taken off the queue is either in the hands of the
\* worker that took it or was settled once, by an ack or a nack (a worker
\* takes a message only when it has none in hand); a nack puts nothing back
\* on the queue and no message is ever requeued; and a worker with a message
\* in hand always has a next step, whatever failed, so it gets back to
\* consuming.
C27_SettledExactlyOnce ==
    /\ [](published - Len(queue) = settled.ack + settled.nack + Cardinality(Busy))
    /\ [](settled.requeued = 0)
    /\ [](\A w \in Busy : ENABLED StartWorker(w) \/ ENABLED HubRunBroadcast)
    /\ [][/\ settled'.nack > settled.nack => Len(queue') <= Len(queue)
          /\ \A w \in Workers :
                (wk[w].pc = "consume" /\ wk'[w] # wk[w]) =>
                    /\ queue' = Tail(queue)
                    /\ wk'[w].job = Head(queue)]_vars

\* C27's case: of two messages published one was nacked and one acked, and
\* the worker is back at the top of its loop with the queue empty
C27_Witness ==
    /\ published = MaxJobs
    /\ settled.nack = 1
    /\ settled.ack = 1
    /\ queue = <<>>
    /\ Busy = {}

(* --------------------- cancellation, under SpecSchedFair --------------- *)

\* C29: once ctx is cancelled the Scheduler returns; a tick that begins after
\* the cancellation publishes nothing; and after the return there is no tick.
C29_CancelStopsScheduler ==
    /\ cancelled ~> stopped
    /\ [][(cancelled /\ tick' # tick) =>
             /\ queue' = queue
             /\ published' = published
             /\ tick'.jobs = <<>>]_vars
    /\ [][stopped => (stopped' /\ tick' = tick /\ queue' = queue)]_vars

\* C29's case: a tick began after the cancellation with a service due, it
\* published nothing, and the Scheduler has returned
C29_Witness ==
    /\ stopped
    /\ tick.afterCancel
    /\ \E i \in DOMAIN services : shouldRun(services[i], tick.at)
    /\ queue = <<>>

(* ------------------- registration, under SpecRegistry ------------------ *)

\* a request body with an empty name or url, a method outside GET, POST, PUT,
\* DELETE, PATCH, or a non-positive timeout, interval or failure_threshold
Malformed(s) ==
    \/ s.name = ""
    \/ s.url = ""
    \/ s.method \notin {"GET", "POST", "PUT", "DELETE", "PATCH"}
    \/ s.timeout <= 0
    \/ s.interval <= 0
    \/ s.T <= 0

\* C28: a registration with a malformed body is answered with the error and
\* writes nothing: the stored services, the id sequence and the count of
\* accepted registrations stay as they were.
C28_MalformedRejected ==
    [][(reply' # reply /\ Malformed(reply'.body)) =>
          /\ reply'.status = 500
          /\ services' = services
          /\ nextID' = nextID
          /\ registered' = registered]_vars

\* C28's case: after a service was stored, a request that names its id, with
\* a status of its own and a method outside the list, was answered with the
\* error, and the row is as it was stored
C28_Witness ==
    /\ reply.status = 500
    /\ reply.body.method = "FOO"
    /\ reply.body.id \in DOMAIN services
    /\ services[reply.body.id].status # reply.body.status

(* ------------------- cancellation, under SpecCancel -------------------- *)

\* C30 (as claimed): once the cancellation signal is raised the worker goes
\* through no further suspension point (taking a message, a probe, a registry
\* call): it settles nothing, takes nothing off the queue, and its only step
\* is the return of StartWorker.
C30_WorkerStopsOnCancel ==
    [][cancelled =>
          /\ \A w \in Deployed : wk'[w] = wk[w] \/ wk'[w].pc = "returned"
          /\ settled' = settled
          /\ Len(queue') >= Len(queue)]_vars

(* ------------- the Hub's closed channels, under SpecHubCloseFair -------- *)

\* Hub.Run is over and did not panic: no case of its select can be taken any
\* more (with a channel open the reactor may just be waiting; once the three
\* channels are closed, this is its termination)
HubRunEnded == ~hubPanicked /\ ~ENABLED HubRun

\* C31: when the register, unregister and broadcast channels of the Hub are
\* all closed, Hub.Run terminates
C31_HubTerminates == (closed = HubInputs) ~> HubRunEnded

(* ------------- the registry and the subscribers, under SpecSubs -------- *)

\* the record the outcomes of the jobs give by themselves: the registered
\* record advanced by the outcome of every call whose Save worked, in the
\* order of the calls
Expected == Serial(calls[1].before, Applied, [k \in DOMAIN Applied |-> k])

\* C32: the stored status and consecutive_failures at the end of every job are
\* a function of the jobs, their probe outcomes and the registry's answers
\* alone: however many subscribers there are, whether they drain their buffers
\* and whichever events are dropped, two runs fed the same jobs and outcomes
\* store the same state.
C32_RegistryIndependentOfSubscribers ==
    (calls # <<>> /\ \A w \in Deployed : wk[w].pc = "consume") =>
        \A i \in DOMAIN services :
            /\ services[i].status = Expected.status
            /\ services[i].cf = Expected.cf

\* C32's case: three jobs ended, each with a stored transition; the subscriber
\* did not drain its buffer, so the third event found the buffer full, was
\* dropped and the subscriber evicted
C32_Witness ==
    /\ Len(Applied) = 3
    /\ Len(events) = 3
    /\ queue = <<>>
    /\ \A w \in Deployed : wk[w].pc = "consume"
    /\ \E c \in Subscribers :
         /\ Len(heard[c]) = 3
         /\ Len(send[c]) = SendCap
         /\ sendClosed[c]
         /\ c \notin clients
         /\ conn[c] = "open"

(* ------------------ who writes a service record, under Spec ------------ *)

\* the state fields of a row
StateOf(r) == <<r.status, r.cf, r.lastCheckedAt>>

\* a worker's UpdateServiceState returns in this step
Updates(w) == wk[w].pc = "update" /\ wk'[w].updated

\* C33 (as claimed): once a service record exists it is never deleted, and its
\* status, consecutive_failures and last_checked_at change only in a step
\* where a worker's update_state returns: no register call and no Scheduler
\* step changes them.
C33_StateOwnedByWorker ==
    [][\A i \in DOMAIN services :
         /\ i \in DOMAIN services'
         /\ StateOf(services'[i]) # StateOf(services[i]) => \E w \in Workers : Updates(w)]_vars

(* ------------------ a failing publish, under SpecSched ----------------- *)

\* the services of the latest tick's snapshot that were due at the tick
DueAtTick == { i \in DOMAIN tick.rows : Due(tick.rows[i], tick.at) }

\* C34: on a tick where the publish failed for some due services, every other
\* due service of the snapshot still got its job (each failure costs the one
\* job it was about), and the Scheduler is then ready for the next tick.
C34_FailedPublishDoesNotAbort ==
    (tick.read /\ tick.failed # {}) =>
        /\ \A i \in DueAtTick \ tick.failed : JobsFor(tick.jobs, tick.rows[i].name) # {}
        /\ Len(tick.jobs) = Cardinality(DueAtTick) - Cardinality(tick.failed)
        /\ (~stopped /\ tick.n < MaxTicks) => ENABLED Scheduler

\* C34's case: two services never checked, so both due on every tick; the
\* publish for the first failed on the first tick and on the second tick, the
\* second service got its job on both
C34_Witness ==
    /\ tick.n = 2
    /\ tick.read
    /\ DOMAIN tick.rows = {1, 2}
    /\ \A i \in {1, 2} : tick.rows[i].lastCheckedAt = Null
    /\ tick.failed = {1}
    /\ tick.jobs = <<JobOf(tick.rows[2])>>
    /\ queue = <<JobOf(tick.rows[2]), JobOf(tick.rows[2])>>

(* ------------- the Scheduler on its ticker, under SpecTimed ------------ *)

\* this step is the tick that follows the tick recorded in tick, and both read
\* the service list
NextTickReads == tick.n >= 1 /\ tick'.n = tick.n + 1 /\ tick.read /\ tick'.read

\* C35: when a service was due at a tick and no update_state for it has
\* completed by the next tick (its record is as the first tick read it), it
\* is due at the next tick too, and a job for it is published on both ticks
\* (wherever the publish itself did not fail).
C35_DuplicateJobs ==
    [][NextTickReads =>
         \A i \in DueAtTick :
            (i \in DOMAIN tick'.rows /\ tick'.rows[i] = tick.rows[i]) =>
               /\ Due(tick'.rows[i], tick'.at)
               /\ i \notin tick.failed => JobsFor(tick.jobs, tick.rows[i].name) # {}
               /\ i \notin tick'.failed => JobsFor(tick'.jobs, tick.rows[i].name) # {}]_vars

\* C35's case: two ticks have passed and the worker has not taken a job yet:
\* the queue holds two jobs for the same service
C35_Witness ==
    /\ tick.n = 2
    /\ calls = <<>>
    /\ tick.jobs = <<JobOf(services[1])>>
    /\ queue = <<JobOf(services[1]), JobOf(services[1])>>

\* this step is the second of two consecutive ticks that come after an earlier
\* tick, and nothing failed in either: the list was read and every publish
\* worked
TwoTicksLater ==
    /\ tick.n >= 2
    /\ tick'.n = tick.n + 1
    /\ tick.read /\ tick.failed = {}
    /\ tick'.read /\ tick'.failed = {}

\* one of the two ticks published a job for every service
PublishedInTwo ==
    \A i \in DOMAIN tick'.rows :
        \/ JobsFor(tick.jobs, tick'.rows[i].name) # {}
        \/ JobsFor(tick'.jobs, tick'.rows[i].name) # {}

\* C36 (as claimed): for a service with an interval of 1 s under the 5 s tick,
\* after any tick a new job for the service is published within the next two
\* ticks.
C36_JobWithinTwoTicks == [][TwoTicksLater => PublishedInTwo]_vars

\* C36 (amended): the same after any tick that leaves at most one job
\* waiting.
C36_JobWithinTwoTicksOfSmallBacklog ==
    [][(TwoTicksLater /\ tick.prevBacklog <= 1) => PublishedInTwo]_vars

\* C36's case: the update_state of the one waiting job completed within a
\* second before a tick, which therefore published nothing and left the queue
\* empty; the tick after it has published the next job
C36_Witness ==
    /\ tick.n >= 3
    /\ tick.read
    /\ tick.failed = {}
    /\ tick.prevBacklog = 0
    /\ calls # <<>>
    /\ tick.rows[1].lastCheckedAt = tick.at - TickPeriod - 1
    /\ tick.jobs = <<JobOf(tick.rows[1])>>

(* ------------------- the probe's outcome, under SpecProbe -------------- *)

\* what the probe in worker w's hands was answered: a response, and one with
\* a status code below 400
Received(w) == ~wk[w].resp.err
Below400(w) == Received(w) /\ wk[w].resp.code < 400

\* C37: the outcome passed to UpdateServiceState is success exactly when a
\* response was received and its status code is below 400; the log entry of a
\* transport error has status code 0 and an error text; the log entry's
\* status is UP exactly when the outcome is success, and its error message is
\* empty then.
C37_ProbeOutcome ==
    [][\A w \in Deployed :
         /\ (wk[w].pc = "update" /\ calls' # calls) =>
                calls'[Len(calls')].success = Below400(w)
         /\ (wk[w].pc = "log" /\ logs' # logs) =>
                LET e == logs'[Len(logs')]
                IN /\ ~Received(w) => (e.statusCode = 0 /\ e.errorMsg # "")
                   /\ (e.status = "UP") = Below400(w)
                   /\ Below400(w) => e.errorMsg = ""]_vars

\* C37's case: three probes were logged and passed on, answered 399, 400 and
\* with a transport error
C37_Witness ==
    /\ Len(logs) = 3
    /\ Len(calls) = 3
    /\ logs[1].statusCode = 399 /\ logs[1].status = "UP" /\ calls[1].success
    /\ logs[2].statusCode = 400 /\ logs[2].status = "DOWN" /\ ~calls[2].success
    /\ logs[3].statusCode = 0 /\ logs[3].errorMsg # "" /\ ~calls[3].success

(* ------------------------ unregister, under SpecHub -------------------- *)

\* Hub.Run takes the unregister of subscriber c in this step
TakesUnregister(c) == conn[c] = "unreg" /\ conn'[c] = "gone"

\* the subscriber was dropped by a broadcast that found its buffer full: it
\* heard a message that never reached its buffer
Evicted(c) == Len(heard[c]) > Len(taken[c]) + Len(send[c])

\* C38: the unregister of a subscriber that is in the set removes it and
\* closes its buffer, nothing else; the unregister of a subscriber that is not
\* in the set (a broadcast evicted it) changes neither the set nor any buffer,
\* and closes nothing a second time.
C38_Unregister ==
    [][\A c \in Clients :
         TakesUnregister(c) =>
            /\ send' = send
            /\ hubPanicked' = hubPanicked
            /\ IF c \in clients
               THEN /\ clients' = clients \ {c}
                    /\ ~sendClosed[c]
                    /\ sendClosed' = [sendClosed EXCEPT ![c] = TRUE]
               ELSE /\ clients' = clients
                    /\ sendClosed' = sendClosed]_vars

\* C38's case: both subscribers have left; one was in the set when its
\* unregister was taken, the other had been evicted by a broadcast before
C38_Witness ==
    /\ ~hubPanicked
    /\ \E c, d \in Clients :
         /\ conn[c] = "gone" /\ sendClosed[c] /\ Evicted(c)
         /\ conn[d] = "gone" /\ sendClosed[d] /\ ~Evicted(d) /\ heard[d] # <<>>

\* C40: in every state of the Hub, whatever the order of the registers,
\* unregisters and broadcasts (an unregister that comes after the eviction of
\* the same subscriber too), every subscriber in the set has an open buffer,
\* and Hub.Run has neither sent on a closed buffer nor closed one twice.
C40_MembersHaveOpenBuffers ==
    /\ \A c \in clients : ~sendClosed[c]
    /\ ~hubPanicked

\* C40's case: a subscriber was evicted by a broadcast and its unregister was
\* taken afterwards, while another subscriber is in the set and has received
\* a broadcast since
C40_Witness ==
    \E c, d \in Clients :
        /\ Evicted(c) /\ conn[c] = "gone" /\ c \notin clients
        /\ d \in clients /\ ~sendClosed[d]
        /\ Len(heard[d]) = MaxHubEvents

(* ------------- the Scheduler's range over the map, under SpecCache ------ *)

\* C39: what the Scheduler iterates during a tick is a snapshot: every service
\* it visits is a row its own query found, as the query found it, no handler
\* has written the map while the range was under way, and the process has not
\* been ended for a map write concurrent with the iteration.
C39_SchedulerIteratesSnapshot ==
    /\ ~mapFault
    /\ ~ranging.raced
    /\ \A k \in DOMAIN ranging.visited :
          LET v == ranging.visited[k]
          IN v.id \in DOMAIN ranging.found /\ v.row = ranging.found[v.id]

====
